---- MODULE Spec2Model ----
(***************************************************************************)
(* A model of endless_sky_rw: the generational arena (src/arena.rs), the   *)
(* data model built on it (src/data.rs), the lexer (src/lex.rs) and the    *)
(* parser (src/parse.rs).  Every operation of the code is a pure operator  *)
(* over records that mirror the structs; the actions apply them.           *)
(***************************************************************************)
EXTENDS Integers, Sequences, FiniteSets, TLC

VARIABLES
    arena,      \* Arena<T> under test: [arena, next_free, generation, count]
    live,       \* history: indices returned by insert and not removed since
    removed,    \* history: indices a remove has returned a value for
    data,       \* Data: [nodes, sources, root_nodes, error_node]
    lexer,      \* Lexer: [source_index, lookahead, on_new_line, byte_offset, spaces]
    out,        \* history: the items Lexer::next has returned, in order
    exhausted,  \* history: Lexer::next has returned None
    lastOp,     \* history: the last call made, its arguments and what it returned
    parser,     \* Parser: [lexer, errors, indentation]
    depths,     \* history: a record of every Parser::node call, in call order
    taken_errors, \* history: what every take_errors call has returned, in call order
    inserts,    \* history: the number of Arena::insert calls
    removes,    \* history: the number of remove calls that returned a value
    minted,     \* history: the tokens minted from the ranges push_source has returned
    freed,      \* history: the slots freed by a remove and not reoccupied since, oldest first
    calls,      \* history: the number of calls made on the Data under use
    ranges,     \* history: the source and the range of every push_source call that returned one
    report_data, \* ReportData: [source, kind, name, trimmed, color_data, error_messages]
    reported,   \* history: the texts report has rendered, in call order
    pc          \* which call of the driver has been made

vars == <<arena, live, removed, data, lexer, out, exhausted, lastOp, parser, depths, taken_errors, inserts, removes, minted, freed, calls, ranges, report_data, reported, pc>>

(***************************************************************************)
(* Bounds of the model.                                                    *)
(***************************************************************************)
MaxSize == 3        \* slots an arena under test may grow to
MaxRemoves == 3     \* successful removes of a run (caps the generation counter)
MaxValue == 2       \* values stored in the arena under test are 1..MaxValue
MaxLen == 4         \* characters of a source text over the whole alphabet
MaxTreeLen == 7     \* characters of a source text of letters, newlines and tabs
MaxTakes == 2       \* take_errors calls after a parse
MaxNodes == 2       \* nodes inserted in a Data built by hand, besides its Error node
MaxEdges == 2       \* child entries in a Data built by hand
MaxTokens == 2      \* token entries in a Data built by hand
MaxMinted == 2      \* distinct ranges push_source returns in a run
MaxRoots == 1       \* entries of the root registry of a Data built by hand
MaxPlan == 3        \* nodes of a tree built to be written
MaxCalls == 3       \* calls made on a Data under use
MaxGraph == 3       \* nodes of a graph built to be written, besides the Error node
MaxGraphEdges == 3  \* child entries of a graph built to be written

(***************************************************************************)
(* The order of statements: Then(x, F) is F of the value of x, with x      *)
(* evaluated once, before F.  let x = ...; rest  reads                     *)
(* Then(..., LAMBDA x : rest).                                             *)
(***************************************************************************)
Then(x, F(_)) == [v \in {x} |-> F(v)][x]

(***************************************************************************)
(* Option<T>: None is the empty sequence, Some(x) the one-element one.     *)
(***************************************************************************)
None == <<>>
Some(x) == <<x>>
IsSome(o) == o # <<>>
Unwrap(o) == o[1]

(***************************************************************************)
(* src/arena.rs                                                            *)
(***************************************************************************)
ArenaIndex(g, i) == [generation |-> g, index |-> i]

Free == [tag |-> "Free"]
Occupied(g, v) == [tag |-> "Occupied", generation |-> g, value |-> v]

ArenaDefault == [arena |-> <<>>, next_free |-> <<>>, generation |-> 0, count |-> 0]

ArenaLen(a) == a.count

ArenaSize(a) == Len(a.arena)

\* Vec::get(index): the entry of a 0-based slot, None when out of range
EntryAt(a, index) ==
    IF index >= 0 /\ index < Len(a.arena) THEN Some(a.arena[index + 1]) ELSE None

\* the generation an insert stamps on the entry and on the index it returns
StampStale(a) == 0
Stamp(a) == a.generation

\* an insert that reuses the slot freed first instead of the one freed last
ArenaInsertFirstFreed(a, value) ==
    LET counted == [a EXCEPT !.count = @ + 1]
        popped == IF Len(a.next_free) > 0 THEN Some(a.next_free[1]) ELSE None
        rest == IF Len(a.next_free) > 0 THEN Tail(a.next_free) ELSE a.next_free
    IN  IF IsSome(popped) /\ IsSome(EntryAt(a, Unwrap(popped)))
        THEN [arena |-> [counted EXCEPT !.next_free = rest,
                                        !.arena[Unwrap(popped) + 1] = Occupied(Stamp(a), value)],
              index |-> ArenaIndex(Stamp(a), Unwrap(popped))]
        ELSE [arena |-> [counted EXCEPT !.next_free = rest,
                                        !.arena = Append(@, Occupied(Stamp(a), value))],
              index |-> ArenaIndex(Stamp(a), Len(a.arena))]

\* Arena::insert: [arena |-> the arena afterwards, index |-> the ArenaIndex returned]
ArenaInsert(a, value) ==
    LET counted == [a EXCEPT !.count = @ + 1]
        popped == IF Len(a.next_free) > 0 THEN Some(a.next_free[Len(a.next_free)]) ELSE None
        rest == IF Len(a.next_free) > 0 THEN SubSeq(a.next_free, 1, Len(a.next_free) - 1)
                ELSE a.next_free
    IN  IF IsSome(popped) /\ IsSome(EntryAt(a, Unwrap(popped)))
        THEN [arena |-> [counted EXCEPT !.next_free = rest,
                                        !.arena[Unwrap(popped) + 1] = Occupied(Stamp(a), value)],
              index |-> ArenaIndex(Stamp(a), Unwrap(popped))]
        ELSE [arena |-> [counted EXCEPT !.next_free = rest,
                                        !.arena = Append(@, Occupied(Stamp(a), value))],
              index |-> ArenaIndex(Stamp(a), Len(a.arena))]

\* Arena::get_index_by_usize
ArenaGetIndexByUsize(a, index) ==
    IF IsSome(EntryAt(a, index)) /\ Unwrap(EntryAt(a, index)).tag = "Occupied"
    THEN Some(ArenaIndex(Unwrap(EntryAt(a, index)).generation, index))
    ELSE None

\* Arena::get_by_usize
ArenaGetByUsize(a, index) ==
    IF IsSome(EntryAt(a, index)) /\ Unwrap(EntryAt(a, index)).tag = "Occupied"
    THEN Some(Unwrap(EntryAt(a, index)).value)
    ELSE None

\* the guard get, get_mut and remove share: the slot is occupied and stamped
\* with the generation of the index
Resolves(a, idx) ==
    /\ IsSome(EntryAt(a, idx.index))
    /\ Unwrap(EntryAt(a, idx.index)).tag = "Occupied"
    /\ Unwrap(EntryAt(a, idx.index)).generation = idx.generation

\* Arena::get
ArenaGet(a, idx) == IF Resolves(a, idx) THEN ArenaGetByUsize(a, idx.index) ELSE None

\* Arena::get_mut_by_usize, Arena::get_mut: the value the returned reference points to
ArenaGetMutByUsize(a, index) ==
    IF IsSome(EntryAt(a, index)) /\ Unwrap(EntryAt(a, index)).tag = "Occupied"
    THEN Some(Unwrap(EntryAt(a, index)).value)
    ELSE None

ArenaGetMut(a, idx) == IF Resolves(a, idx) THEN ArenaGetMutByUsize(a, idx.index) ELSE None

\* a write through the reference get_mut returns (a no-op when it returns None)
ArenaSet(a, idx, value) ==
    IF IsSome(ArenaGetMut(a, idx))
    THEN [a EXCEPT !.arena[idx.index + 1].value = value]
    ELSE a

\* the generation counter after a successful remove
NextGenerationStale(g) == g
NextGeneration(g) == g + 1

\* Arena::remove_by_usize: [arena |-> the arena afterwards, value |-> Option<T>]
\* (first, a remove that takes the entry out of the Vec, shifting the later ones)
ArenaRemoveByUsizeShifting(a, index) ==
    IF IsSome(EntryAt(a, index)) /\ Unwrap(EntryAt(a, index)).tag = "Occupied"
    THEN [arena |-> [a EXCEPT !.arena = SubSeq(@, 1, index) \o SubSeq(@, index + 2, Len(@)),
                              !.generation = NextGeneration(@),
                              !.count = @ - 1],
          value |-> Some(Unwrap(EntryAt(a, index)).value)]
    ELSE [arena |-> a, value |-> None]

ArenaRemoveByUsizeUncounted(a, index) ==
    IF IsSome(EntryAt(a, index)) /\ Unwrap(EntryAt(a, index)).tag = "Occupied"
    THEN [arena |-> [a EXCEPT !.arena[index + 1] = Free,
                              !.next_free = Append(@, index),
                              !.generation = NextGeneration(@)],
          value |-> Some(Unwrap(EntryAt(a, index)).value)]
    ELSE [arena |-> a, value |-> None]

\* a remove that frees the slot without offering it for reuse
ArenaRemoveByUsizeLeaking(a, index) ==
    IF IsSome(EntryAt(a, index)) /\ Unwrap(EntryAt(a, index)).tag = "Occupied"
    THEN [arena |-> [a EXCEPT !.arena[index + 1] = Free,
                              !.generation = NextGeneration(@),
                              !.count = @ - 1],
          value |-> Some(Unwrap(EntryAt(a, index)).value)]
    ELSE [arena |-> a, value |-> None]

ArenaRemoveByUsize(a, index) ==
    IF IsSome(EntryAt(a, index)) /\ Unwrap(EntryAt(a, index)).tag = "Occupied"
    THEN [arena |-> [a EXCEPT !.arena[index + 1] = Free,
                              !.next_free = Append(@, index),
                              !.generation = NextGeneration(@),
                              !.count = @ - 1],
          value |-> Some(Unwrap(EntryAt(a, index)).value)]
    ELSE [arena |-> a, value |-> None]

\* a remove that does not compare generations
ArenaRemoveAnyGeneration(a, idx) == ArenaRemoveByUsize(a, idx.index)

\* Arena::remove
ArenaRemove(a, idx) ==
    IF Resolves(a, idx) THEN ArenaRemoveByUsize(a, idx.index)
    ELSE [arena |-> a, value |-> None]

\* an iterator that stamps every index with the arena's generation counter
RECURSIVE OccupiedFromCounter(_, _)
OccupiedFromCounter(a, i) ==
    IF i >= Len(a.arena) THEN <<>>
    ELSE (IF a.arena[i + 1].tag = "Occupied"
          THEN <<ArenaIndex(a.generation, i)>> ELSE <<>>)
         \o OccupiedFromCounter(a, i + 1)

\* Arena::occupied: the indices of the occupied slots, in slot order
RECURSIVE OccupiedFrom(_, _)
OccupiedFrom(a, i) ==
    IF i >= Len(a.arena) THEN <<>>
    ELSE (IF a.arena[i + 1].tag = "Occupied"
          THEN <<ArenaIndex(a.arena[i + 1].generation, i)>> ELSE <<>>)
         \o OccupiedFrom(a, i + 1)

ArenaOccupied(a) == OccupiedFrom(a, 0)

(***************************************************************************)
(* Source text.  A String is its UTF-8 bytes, each ASCII character a byte  *)
(* named after it; the one non-ASCII character of the model is U+00E9, the *)
(* two bytes C3 A9.  Spans are byte offsets.                               *)
(***************************************************************************)
SP == "SP"
TAB == "TAB"
NL == "LF"
CR == "CR"
FF == "FF"
HASH == "#"
DQ == "DQUOTE"
BQ == "BQUOTE"
LETTER == "a"
EACUTE == "U+00E9"

\* String::from: the bytes of a sequence of characters
RECURSIVE Encode(_)
Encode(chars) ==
    IF chars = <<>> THEN <<>>
    ELSE (IF Head(chars) = EACUTE THEN <<"C3", "A9">> ELSE <<Head(chars)>>)
         \o Encode(Tail(chars))

\* char::len_utf8
Utf8LenOne(c) == 1
Utf8Len(c) == IF c = EACUTE THEN 2 ELSE 1

\* char::is_ascii, char::is_ascii_whitespace (space, tab, LF, FF, CR)
IsAscii(c) == c # EACUTE
IsAsciiWhitespace(c) == c \in {SP, TAB, NL, FF, CR}

\* source[byte_offset..].chars().next()
CharAt(src, byte_offset) ==
    IF byte_offset >= Len(src) THEN None
    ELSE IF src[byte_offset + 1] = "C3" THEN Some(EACUTE)
    ELSE Some(src[byte_offset + 1])

\* str::slice(start..end): None unless the range lies in the text on character
\* boundaries
IsCharBoundary(src, i) ==
    i = Len(src) \/ (i >= 0 /\ i < Len(src) /\ src[i + 1] # "A9")

Slice(src, start, end) ==
    IF start <= end /\ IsCharBoundary(src, start) /\ IsCharBoundary(src, end)
    THEN Some(SubSeq(src, start + 1, end))
    ELSE None

(***************************************************************************)
(* src/reporting.rs Span, src/lex/token.rs, src/lex/error.rs               *)
(***************************************************************************)
Span(start, end) == [start |-> start, end |-> end]

Token(kind, span) == [kind |-> kind, span |-> span]

LexError(kind, span) == [kind |-> kind, span |-> span]

\* Token::lexeme
Lexeme(token, src) == Slice(src, token.span.start, token.span.end)

\* LexItem = Result<Token, LexError>
Ok(token) == [tag |-> "Ok", val |-> token]
Err(error) == [tag |-> "Err", val |-> error]

(***************************************************************************)
(* src/data.rs: the nodes, the sources and the root registry               *)
(***************************************************************************)
NodeSome(tokens) == [tag |-> "Some", tokens |-> tokens, children |-> <<>>]
NodeParent(tokens, children) == [tag |-> "Parent", tokens |-> tokens, children |-> children]
NodeError == [tag |-> "Error", tokens |-> <<>>, children |-> <<>>]

\* Data::default
DataDefault ==
    LET r == ArenaInsert(ArenaDefault, NodeError)
    IN  [nodes |-> r.arena, sources |-> ArenaDefault, root_nodes |-> <<>>,
         error_node |-> r.index]

\* Data::insert_source: [data, index]
DataInsertSource(d, source) ==
    LET r == ArenaInsert(d.sources, source)
    IN  [data |-> [d EXCEPT !.sources = r.arena], index |-> r.index]

\* Data::get_source
DataGetSource(d, index) == ArenaGet(d.sources, index)

(***************************************************************************)
(* src/lex.rs                                                              *)
(***************************************************************************)
\* Lexer::new
LexerNew(source_index) ==
    [source_index |-> source_index, lookahead |-> None, on_new_line |-> TRUE,
     byte_offset |-> 0, spaces |-> "Unknown"]

\* the result of a lexer call: the lexer afterwards and the Option<LexItem> returned
LexResult(lx, item) == [lexer |-> lx, item |-> item]

\* the inner loop of a comment: the offset of the newline that ends it, or the end
RECURSIVE CommentEndPastNewline(_, _)
CommentEndPastNewline(src, off) ==
    LET n == CharAt(src, off)
    IN  IF IsSome(n) THEN CommentEndPastNewline(src, off + Utf8Len(Unwrap(n))) ELSE off

RECURSIVE CommentEnd(_, _)
CommentEnd(src, off) ==
    LET n == CharAt(src, off)
    IN  IF IsSome(n) /\ Unwrap(n) # NL THEN CommentEnd(src, off + Utf8Len(Unwrap(n)))
        ELSE off

\* the inner loop of a quoted string: the offset of the close quote, of the
\* newline, or the end
RECURSIVE StringEndPastNewline(_, _, _)
StringEndPastNewline(src, off, c) ==
    LET n == CharAt(src, off)
    IN  IF IsSome(n) /\ Unwrap(n) # c
        THEN StringEndPastNewline(src, off + Utf8Len(Unwrap(n)), c)
        ELSE off

RECURSIVE StringEnd(_, _, _)
StringEnd(src, off, c) ==
    LET n == CharAt(src, off)
    IN  IF IsSome(n) /\ Unwrap(n) # NL /\ Unwrap(n) # c
        THEN StringEnd(src, off + Utf8Len(Unwrap(n)), c)
        ELSE off

\* the inner loop of a bareword: the offset of the first whitespace or non-ASCII
\* character, or the end
RECURSIVE BarewordEnd(_, _)
BarewordEnd(src, off) ==
    LET n == CharAt(src, off)
    IN  IF IsSome(n) /\ ~IsAsciiWhitespace(Unwrap(n)) /\ IsAscii(Unwrap(n))
        THEN BarewordEnd(src, off + Utf8Len(Unwrap(n)))
        ELSE off

\* what a recovery leaves in the lookahead slot next to the error it returns
BufferedNothing(token) == None
Buffered(token) == Some(Ok(token))

\* an indentation arm that reports the mix and leaves the tracker as it is
IndentArmUntracked(lx, start, other, this) ==
    LET token == Token("Indent", Span(start, lx.byte_offset))
    IN  IF lx.spaces = other
        THEN LexResult([lx EXCEPT !.lookahead = Buffered(token)],
                       Some(Err(LexError("MixedIndentation", Span(start, lx.byte_offset)))))
        ELSE IF lx.spaces = "Unknown"
        THEN LexResult([lx EXCEPT !.spaces = this], Some(Ok(token)))
        ELSE LexResult(lx, Some(Ok(token)))

\* a space or a tab at the start of a line; other is the kind that makes it mixed
IndentArm(lx, start, other, this) ==
    LET token == Token("Indent", Span(start, lx.byte_offset))
    IN  IF lx.spaces = other
        THEN LexResult([lx EXCEPT !.spaces = "Mixed", !.lookahead = Buffered(token)],
                       Some(Err(LexError("MixedIndentation", Span(start, lx.byte_offset)))))
        ELSE IF lx.spaces = "Unknown"
        THEN LexResult([lx EXCEPT !.spaces = this], Some(Ok(token)))
        ELSE LexResult(lx, Some(Ok(token)))

\* a quote: the string up to end, the offset its inner loop stops at, which is
\* its close quote or else the end of the line
QuoteArm(lx, src, start, c) ==
    Then(StringEnd(src, lx.byte_offset, c), LAMBDA end :
        IF CharAt(src, end) # Some(c)
        THEN LexResult([lx EXCEPT !.on_new_line = FALSE, !.byte_offset = end,
                                  !.lookahead = Buffered(Token("Symbol", Span(lx.byte_offset, end)))],
                       Some(Err(LexError("UnclosedString", Span(start, lx.byte_offset)))))
        ELSE LexResult([lx EXCEPT !.on_new_line = FALSE, !.byte_offset = end + Utf8Len(c)],
                       Some(Ok(Token("Symbol", Span(lx.byte_offset, end))))))

\* a bareword: the symbol from start up to end, the offset its inner loop stops at
BarewordArm(lx, start, end) ==
    LexResult([lx EXCEPT !.on_new_line = FALSE, !.byte_offset = end],
              Some(Ok(Token("Symbol", Span(start, end)))))

\* the while-let loop of Lexer::advance, from the cursor of lx
RECURSIVE Scan(_, _)
Scan(lx, src) ==
    LET next == CharAt(src, lx.byte_offset)
        c == Unwrap(next)
        start == lx.byte_offset
        l1 == [lx EXCEPT !.byte_offset = @ + Utf8Len(c)]
    IN  IF next = None THEN LexResult(lx, None)
        ELSE IF c = NL
        THEN LexResult([l1 EXCEPT !.on_new_line = TRUE],
                       Some(Ok(Token("Newline", Span(start, l1.byte_offset)))))
        ELSE IF c = SP /\ lx.on_new_line THEN IndentArm(l1, start, "Tab", "Space")
        ELSE IF c = TAB /\ lx.on_new_line THEN IndentArm(l1, start, "Space", "Tab")
        ELSE IF c = SP \/ c = TAB THEN Scan(l1, src)
        ELSE IF c = HASH
        THEN Scan([l1 EXCEPT !.byte_offset = CommentEnd(src, l1.byte_offset)], src)
        ELSE IF c = BQ \/ c = DQ THEN QuoteArm(l1, src, start, c)
        ELSE IF IsAscii(c) THEN BarewordArm(l1, start, BarewordEnd(src, l1.byte_offset))
        ELSE LexResult([l1 EXCEPT !.on_new_line = FALSE],
                       Some(Err(LexError("NonAsciiCharacter", Span(start, l1.byte_offset)))))

\* Lexer::advance
Advance(lx, d) ==
    IF IsSome(lx.lookahead)
    THEN LexResult([lx EXCEPT !.lookahead = None], lx.lookahead)
    ELSE Scan(lx, Unwrap(DataGetSource(d, lx.source_index)))

\* Lexer::advance panics: the slot is empty and get_source(..).unwrap() meets None
AdvanceAborts(lx, d) == lx.lookahead = None /\ DataGetSource(d, lx.source_index) = None

\* Lexer::next
LexerNext(lx, d) == Advance(lx, d)

\* Lexer::peek: on an empty slot, advance and keep what it returned in the slot
LexerPeek(lx, d) ==
    IF lx.lookahead = None
    THEN Then(Advance(lx, d), LAMBDA r :
              LexResult([r.lexer EXCEPT !.lookahead = r.item], r.item))
    ELSE LexResult(lx, lx.lookahead)

\* every item a lexer yields from lx on through next alone
RECURSIVE Drain(_, _)
Drain(lx, d) ==
    Then(LexerNext(lx, d), LAMBDA r :
        IF r.item = None THEN <<>> ELSE <<Unwrap(r.item)>> \o Drain(r.lexer, d))

(***************************************************************************)
(* src/data.rs: nodes and roots                                            *)
(***************************************************************************)
\* an insert_node that stores the node in the first slot, over what is there
DataInsertNodeOverFirst(d, node) ==
    [data |-> [d EXCEPT !.nodes.arena[1] = Occupied(0, node)], index |-> ArenaIndex(0, 0)]

\* Data::insert_node: [data, index]
DataInsertNode(d, node) ==
    LET r == ArenaInsert(d.nodes, node)
    IN  [data |-> [d EXCEPT !.nodes = r.arena], index |-> r.index]

\* Data::get_node
DataGetNode(d, index) == ArenaGet(d.nodes, index)

\* Data::push_root_node
DataPushRootNode(d, source_index, node_index) ==
    [d EXCEPT !.root_nodes = Append(@, <<source_index, node_index>>)]

\* Data::get_tokens, Data::get_children
DataGetTokens(d, index) ==
    LET n == DataGetNode(d, index)
    IN  IF n = None \/ Unwrap(n).tag = "Error" THEN None ELSE Some(Unwrap(n).tokens)

DataGetChildren(d, index) ==
    LET n == DataGetNode(d, index)
    IN  IF n = None \/ Unwrap(n).tag # "Parent" THEN None ELSE Some(Unwrap(n).children)

\* Data::get_mut_node: the node the returned reference points to
DataGetMutNode(d, index) == ArenaGetMut(d.nodes, index)

\* what a Leaf turned Parent keeps of the Leaf's tokens
TransplantNothing(tokens) == <<>>
Transplant(tokens) == tokens

\* a push_child that makes a Parent of whatever node it finds
DataPushChildAnyNode(d, node_index, child_index) ==
    LET n == DataGetMutNode(d, node_index)
    IN  IF n = None THEN d
        ELSE IF Unwrap(n).tag = "Parent"
        THEN [d EXCEPT !.nodes = ArenaSet(@, node_index,
                                          NodeParent(Unwrap(n).tokens,
                                                     Append(Unwrap(n).children, child_index)))]
        ELSE [d EXCEPT !.nodes = ArenaSet(@, node_index,
                                          NodeParent(Transplant(Unwrap(n).tokens),
                                                     <<child_index>>))]

\* Data::push_child
DataPushChild(d, node_index, child_index) ==
    LET n == DataGetMutNode(d, node_index)
    IN  IF n = None THEN d
        ELSE IF Unwrap(n).tag = "Error" THEN d
        ELSE IF Unwrap(n).tag = "Some"
        THEN [d EXCEPT !.nodes = ArenaSet(@, node_index,
                                          NodeParent(Transplant(Unwrap(n).tokens),
                                                     <<child_index>>))]
        ELSE [d EXCEPT !.nodes = ArenaSet(@, node_index,
                                          NodeParent(Unwrap(n).tokens,
                                                     Append(Unwrap(n).children, child_index)))]

\* a push_token that does not single out the Error node
DataPushTokenAnyNode(d, node_index, token) ==
    LET n == DataGetMutNode(d, node_index)
    IN  IF n = None THEN d
        ELSE [d EXCEPT !.nodes = ArenaSet(@, node_index,
                                          [Unwrap(n) EXCEPT !.tokens = Append(@, token)])]

\* Data::push_token
DataPushToken(d, node_index, token) ==
    LET n == DataGetMutNode(d, node_index)
    IN  IF n = None THEN d
        ELSE IF Unwrap(n).tag = "Error" THEN d
        ELSE [d EXCEPT !.nodes = ArenaSet(@, node_index,
                                          [Unwrap(n) EXCEPT !.tokens = Append(@, token)])]

\* a push_source that writes in front of the text
DataPushSourceInFront(d, index, append) ==
    LET source == ArenaGetMut(d.sources, index)
    IN  IF IsSome(source)
        THEN [data |-> [d EXCEPT !.sources = ArenaSet(@, index, append \o Unwrap(source))],
              range |-> Some(<<Len(Unwrap(source)), Len(Unwrap(source)) + Len(append)>>)]
        ELSE [data |-> d, range |-> None]

\* Data::push_source: [data, range], range the Option<(usize, usize)> returned
DataPushSource(d, index, append) ==
    LET source == ArenaGetMut(d.sources, index)
    IN  IF IsSome(source)
        THEN [data |-> [d EXCEPT !.sources = ArenaSet(@, index, Unwrap(source) \o append)],
              range |-> Some(<<Len(Unwrap(source)), Len(Unwrap(source)) + Len(append)>>)]
        ELSE [data |-> d, range |-> None]

\* Data::get_lexeme
DataGetLexeme(d, source_index, token) ==
    IF IsSome(DataGetSource(d, source_index))
    THEN Lexeme(token, Unwrap(DataGetSource(d, source_index)))
    ELSE None

\* the predicates given to filter and filter_children: any tokens, tokens whose
\* first lexeme is the keyword a, no tokens at all
Predicates == {"any", "keyword", "bare"}

Holds(predicate, d, source_index, tokens) ==
    CASE predicate = "any" -> TRUE
      [] predicate = "keyword" ->
             tokens # <<>> /\ DataGetLexeme(d, source_index, tokens[1]) = Some(<<LETTER>>)
      [] predicate = "bare" -> tokens = <<>>

\* the closure of Iterator::filter in filter and filter_children
Matches(d, source_index, node_index, predicate) ==
    /\ IsSome(DataGetTokens(d, node_index))
    /\ Holds(predicate, d, source_index, Unwrap(DataGetTokens(d, node_index)))

\* Data::filter from registry entry i on, last entry first
RECURSIVE FilterFromReversed(_, _, _)
FilterFromReversed(d, predicate, i) ==
    IF i > Len(d.root_nodes) THEN <<>>
    ELSE FilterFromReversed(d, predicate, i + 1)
             \o (IF Matches(d, d.root_nodes[i][1], d.root_nodes[i][2], predicate)
                 THEN <<d.root_nodes[i]>> ELSE <<>>)

\* Data::filter from registry entry i on
RECURSIVE FilterFrom(_, _, _)
FilterFrom(d, predicate, i) ==
    IF i > Len(d.root_nodes) THEN <<>>
    ELSE (IF Matches(d, d.root_nodes[i][1], d.root_nodes[i][2], predicate)
          THEN <<d.root_nodes[i]>> ELSE <<>>)
             \o FilterFrom(d, predicate, i + 1)

\* Data::filter: the pairs the iterator yields, in order
DataFilter(d, predicate) == FilterFrom(d, predicate, 1)

\* Data::filter_children: the children the iterator yields, in order
RECURSIVE FilterChildrenOf(_, _, _, _)
FilterChildrenOf(d, source_index, children, predicate) ==
    IF children = <<>> THEN <<>>
    ELSE (IF Matches(d, source_index, Head(children), predicate)
          THEN <<Head(children)>> ELSE <<>>)
             \o FilterChildrenOf(d, source_index, Tail(children), predicate)

DataFilterChildren(d, source_index, node_index, predicate) ==
    FilterChildrenOf(d, source_index,
                     IF IsSome(DataGetChildren(d, node_index))
                     THEN Unwrap(DataGetChildren(d, node_index)) ELSE <<>>,
                     predicate)

\* str::contains(char), "\t".repeat(n)
Contains(lexeme, c) == \E i \in 1..Len(lexeme) : lexeme[i] = c
Repeat(c, n) == [i \in 1..n |-> c]

\* a writer that wraps every lexeme in double quotes
QuotedAlways(lexeme) == <<DQ>> \o lexeme \o <<DQ>>

\* the text write_recursive emits for one lexeme: in double quotes, else in
\* backticks, else bare
Quoted(lexeme) ==
    IF ~Contains(lexeme, DQ) THEN <<DQ>> \o lexeme \o <<DQ>>
    ELSE IF ~Contains(lexeme, BQ) THEN <<BQ>> \o lexeme \o <<BQ>>
    ELSE lexeme

\* the token loop of write_recursive from token i on: the text it emits
RECURSIVE WriteTokens(_, _, _)
WriteTokens(src, tokens, i) ==
    IF i > Len(tokens) THEN <<>>
    ELSE (IF IsSome(Lexeme(tokens[i], src)) /\ Unwrap(Lexeme(tokens[i], src)) # <<>>
          THEN Quoted(Unwrap(Lexeme(tokens[i], src)))
                   \o (IF i - 1 < Len(tokens) - 1 THEN <<SP>> ELSE <<>>)
          ELSE <<>>)
         \o WriteTokens(src, tokens, i + 1)

\* Data::write_recursive and its child loop, on w = [output, infinity_prevention,
\* written]; written is a history, the pairs whose token loop has run, in order
RECURSIVE WriteRecursive(_, _, _, _, _), WriteChildren(_, _, _, _, _)
RECURSIVE WriteChildrenForgetting(_, _, _, _, _)
WriteRecursive(d, w, source_index, node_index, indentation) ==
    IF <<source_index, node_index>> \in w.infinity_prevention THEN w
    ELSE Then([w EXCEPT !.infinity_prevention = @ \cup {<<source_index, node_index>>}],
              LAMBDA seen :
        IF DataGetNode(d, node_index) = Some(NodeError) THEN seen
        ELSE IF DataGetTokens(d, node_index) = None THEN seen
        ELSE Then([seen EXCEPT !.output =
                       @ \o WriteTokens(IF IsSome(DataGetSource(d, source_index))
                                        THEN Unwrap(DataGetSource(d, source_index)) ELSE <<>>,
                                        Unwrap(DataGetTokens(d, node_index)), 1),
                              !.written = Append(@, <<source_index, node_index>>)],
                  LAMBDA line :
            IF IsSome(DataGetChildren(d, node_index))
                /\ Unwrap(DataGetChildren(d, node_index)) # <<>>
            THEN WriteChildren(d, line, source_index,
                               Unwrap(DataGetChildren(d, node_index)), indentation + 1)
            ELSE line))

\* a child loop that forgets, after each child, the pairs seen below it
WriteChildrenForgetting(d, w, source_index, children, indentation) ==
    IF children = <<>> THEN w
    ELSE Then(WriteRecursive(d, [w EXCEPT !.output = @ \o <<NL>> \o Repeat(TAB, indentation)],
                             source_index, Head(children), indentation),
              LAMBDA written :
                  WriteChildrenForgetting(d, [written EXCEPT !.infinity_prevention =
                                                                w.infinity_prevention],
                                          source_index, Tail(children), indentation))

WriteChildren(d, w, source_index, children, indentation) ==
    IF children = <<>> THEN w
    ELSE Then(WriteRecursive(d, [w EXCEPT !.output = @ \o <<NL>> \o Repeat(TAB, indentation)],
                             source_index, Head(children), indentation),
              LAMBDA written :
                  WriteChildren(d, written, source_index, Tail(children), indentation))

\* let mut infinity_prevention = HashSet::new()
Writer(output) == [output |-> output, infinity_prevention |-> {}, written |-> <<>>]

\* Data::write: the writer when it returns, and the output string afterwards
DataWriteAll(d, output, source_index, node_index, indentation) ==
    WriteRecursive(d, Writer(output), source_index, node_index, indentation)

DataWrite(d, output, source_index, node_index, indentation) ==
    DataWriteAll(d, output, source_index, node_index, indentation).output

\* the loop of Data::write_root_nodes
RECURSIVE WriteRoots(_, _, _)
WriteRoots(d, w, root_nodes) ==
    IF root_nodes = <<>> THEN w
    ELSE Then(WriteRecursive(d, w, Head(root_nodes)[1], Head(root_nodes)[2], 0),
              LAMBDA written :
                  WriteRoots(d, [written EXCEPT !.output = @ \o <<NL, NL, NL, NL>>],
                             Tail(root_nodes)))

\* Data::write_root_nodes: the writer when it returns
DataWriteRootNodes(d, output, root_nodes) == WriteRoots(d, Writer(output), root_nodes)

(***************************************************************************)
(* src/parse.rs                                                            *)
(***************************************************************************)
\* ParseError::new(ParseErrorKind::LexError(lex_error), span)
ParseError(lex_error, span) == [kind |-> [tag |-> "LexError", error |-> lex_error], span |-> span]

\* Parser::new
ParserNew(source_index) ==
    [lexer |-> LexerNew(source_index), errors |-> <<>>, indentation |-> 0]

\* Parser::take_errors: [parser |-> the parser afterwards, errors |-> the Vec returned]
ParserTakeErrorsKeep(ps) == [parser |-> ps, errors |-> ps.errors]
ParserTakeErrors(ps) == [parser |-> [ps EXCEPT !.errors = <<>>], errors |-> ps.errors]

\* Parser::lex_error: drain the errors the lexer has pending
RECURSIVE ParserLexError(_, _)
ParserLexError(ps, d) ==
    Then(LexerPeek(ps.lexer, d), LAMBDA pk :
        IF IsSome(pk.item) /\ Unwrap(pk.item).tag = "Err"
        THEN Then(LexerNext(pk.lexer, d), LAMBDA nx :
                  ParserLexError([ps EXCEPT !.lexer = nx.lexer,
                                            !.errors = Append(@, ParseError(Unwrap(nx.item).val,
                                                                            Unwrap(nx.item).val.span))],
                                 d))
        ELSE [ps EXCEPT !.lexer = pk.lexer])

\* the Option<Token> a parser call returns from the lexer's result r, and the
\* parser afterwards
TokenResult(ps, r) ==
    [parser |-> [ps EXCEPT !.lexer = r.lexer],
     token |-> IF IsSome(r.item) /\ Unwrap(r.item).tag = "Ok"
               THEN Some(Unwrap(r.item).val) ELSE None]

\* Parser::parse panics: its first call is peek, whose first call is lex_error,
\* whose first call is Lexer::peek, which calls advance on an empty slot
ParserParseAborts(ps, d) == AdvanceAborts(ps.lexer, d)

\* Parser::advance
ParserAdvance(ps, d) ==
    Then(ParserLexError(ps, d), LAMBDA drained :
         TokenResult(drained, LexerNext(drained.lexer, d)))

\* Parser::peek
ParserPeek(ps, d) ==
    Then(ParserLexError(ps, d), LAMBDA drained :
         TokenResult(drained, LexerPeek(drained.lexer, d)))

\* every token a parser yields from ps on through advance alone
RECURSIVE TokensAhead(_, _)
TokensAhead(ps, d) ==
    Then(ParserAdvance(ps, d), LAMBDA adv :
        IF adv.token = None THEN <<>>
        ELSE <<Unwrap(adv.token)>> \o TokensAhead(adv.parser, d))

\* Parser::indentation
RECURSIVE Indentation(_, _)
Indentation(ps, d) ==
    Then(ParserPeek(ps, d), LAMBDA pk :
        IF pk.token = None THEN pk.parser
        ELSE IF Unwrap(pk.token).kind = "Symbol" THEN pk.parser
        ELSE IF Unwrap(pk.token).kind = "Indent"
        THEN Indentation([ParserAdvance(pk.parser, d).parser EXCEPT !.indentation = @ + 1], d)
        ELSE Indentation([ParserAdvance(pk.parser, d).parser EXCEPT !.indentation = 0], d))

\* the first loop of Parser::node: the run of Symbol tokens at the cursor;
\* [parser, tokens]
RECURSIVE TakeSymbols(_, _, _)
TakeSymbols(ps, d, tokens) ==
    Then(ParserPeek(ps, d), LAMBDA pk :
        IF IsSome(pk.token) /\ Unwrap(pk.token).kind = "Symbol"
        THEN Then(ParserAdvance(pk.parser, d), LAMBDA adv :
                  TakeSymbols(adv.parser, d, Append(tokens, Unwrap(adv.token))))
        ELSE [parser |-> pk.parser, tokens |-> tokens])

\* the test of the child loop: the line ahead is deeper than this node's line
DeeperOrEqual(indentation, current_indentation) == indentation >= current_indentation
Deeper(indentation, current_indentation) == indentation > current_indentation

\* an end of node that makes every node a Parent
InsertNodeAlwaysParent(d, tokens, children) == DataInsertNode(d, NodeParent(tokens, children))

\* the end of Parser::node: a Parent if any children were collected, else a Leaf
InsertNode(d, tokens, children) ==
    IF children # <<>>
    THEN DataInsertNode(d, NodeParent(tokens, children))
    ELSE DataInsertNode(d, NodeSome(tokens))

\* Parser::node and its child loop, which call each other.  A node call returns
\* [parser, data, node, depths], the child loop [parser, data, children, depths];
\* depths records current_indentation and the token pending when it is taken,
\* the number of tokens still ahead when the call is made (pending) and when
\* it reaches its child loop (left).
RECURSIVE ParserNode(_, _, _), ChildLoop(_, _, _, _, _)
ChildLoop(ps, d, log, current_indentation, children) ==
    Then(ParserPeek(ps, d), LAMBDA pk :
        IF IsSome(pk.token) /\ Deeper(pk.parser.indentation, current_indentation)
        THEN Then(ParserNode(pk.parser, d, log), LAMBDA child :
             Then(Indentation(child.parser, child.data), LAMBDA ahead :
                  ChildLoop(ahead, child.data, child.depths, current_indentation,
                            Append(children, child.node))))
        ELSE [parser |-> pk.parser, data |-> d, children |-> children, depths |-> log])

ParserNode(ps, d, log) ==
    Then(Indentation(ps, d), LAMBDA measured :
    Then(TakeSymbols(measured, d, <<>>), LAMBDA taken :
    Then(Indentation(taken.parser, d), LAMBDA ahead :
    Then(ChildLoop(ahead, d,
                   Append(log, [depth |-> measured.indentation,
                                at |-> ParserPeek(measured, d).token,
                                pending |-> Len(TokensAhead(ps, d)),
                                left |-> Len(TokensAhead(ahead, d))]),
                   measured.indentation, <<>>), LAMBDA kids :
    Then(InsertNode(kids.data, taken.tokens, kids.children), LAMBDA ins :
         [parser |-> kids.parser, data |-> ins.data, node |-> ins.index,
          depths |-> kids.depths])))))

\* a parse that gives up at the first token
ParserParseNothing(ps, d, log) == [parser |-> ps, data |-> d, depths |-> log]

\* Parser::parse: [parser, data, depths]
RECURSIVE ParserParse(_, _, _)
ParserParse(ps, d, log) ==
    Then(ParserPeek(ps, d), LAMBDA pk :
        IF IsSome(pk.token)
        THEN Then(ParserNode(pk.parser, d, log), LAMBDA n :
                  ParserParse(n.parser,
                              DataPushRootNode(n.data, n.parser.lexer.source_index, n.node),
                              n.depths))
        ELSE [parser |-> pk.parser, data |-> d, depths |-> log])

(***************************************************************************)
(* The arena under test: any ArenaIndex a caller may hold is tried.        *)
(***************************************************************************)
IndexUniverse == {ArenaIndex(g, i) : g \in 0..MaxRemoves, i \in 0..MaxSize}

IdleArena ==
    /\ arena = ArenaDefault /\ live = {} /\ removed = {}
    /\ inserts = 0 /\ removes = 0 /\ freed = <<>>
IdleLexer == lexer = None /\ out = <<>> /\ exhausted = FALSE /\ lastOp = None
IdleParser == parser = None /\ depths = <<>> /\ taken_errors = <<>>
IdleData == minted = {}
IdleUse == calls = 0 /\ ranges = <<>>
IdleReport == report_data = None /\ reported = <<>>

InitArena ==
    /\ IdleUse /\ IdleReport /\ IdleArena /\ IdleParser /\ IdleData /\ data = None /\ pc = "arena"
    /\ lexer = None /\ out = <<>> /\ exhausted = FALSE
    /\ lastOp = [op |-> "new"]

\* a sequence without the last entry equal to x
RECURSIVE WithoutLast(_, _)
WithoutLast(seq, x) ==
    IF seq = <<>> THEN <<>>
    ELSE IF seq[Len(seq)] = x THEN SubSeq(seq, 1, Len(seq) - 1)
    ELSE Append(WithoutLast(SubSeq(seq, 1, Len(seq) - 1), x), seq[Len(seq)])

Insert(v) ==
    /\ Len(arena.arena) - Len(arena.next_free) < MaxSize
    /\ LET r == ArenaInsert(arena, v)
       IN  /\ arena' = r.arena
           /\ live' = live \cup {r.index}
           /\ freed' = WithoutLast(freed, r.index.index)
           /\ lastOp' = [op |-> "insert", value |-> v, ret |-> r.index, before |-> arena,
                         freed |-> freed]
    /\ inserts' = inserts + 1
    /\ UNCHANGED <<removed, data, lexer, out, exhausted, parser, depths, pc, taken_errors, removes, minted, calls, ranges, report_data, reported>>

Remove(idx) ==
    /\ arena.generation < MaxRemoves
    /\ LET r == ArenaRemove(arena, idx)
       IN  /\ arena' = r.arena
           /\ live' = IF IsSome(r.value) THEN live \ {idx} ELSE live
           /\ removed' = IF IsSome(r.value) THEN removed \cup {idx} ELSE removed
           /\ removes' = IF IsSome(r.value) THEN removes + 1 ELSE removes
           /\ freed' = IF IsSome(r.value) THEN Append(freed, idx.index) ELSE freed
           /\ lastOp' = [op |-> "remove", index |-> idx, ret |-> r.value, before |-> arena]
    /\ UNCHANGED <<data, lexer, out, exhausted, parser, depths, pc, taken_errors, inserts, minted, calls, ranges, report_data, reported>>

RemoveByUsize(i) ==
    /\ arena.generation < MaxRemoves
    /\ LET r == ArenaRemoveByUsize(arena, i)
           at == ArenaGetIndexByUsize(arena, i)
       IN  /\ arena' = r.arena
           /\ live' = IF IsSome(r.value) THEN live \ {Unwrap(at)} ELSE live
           /\ removed' = IF IsSome(r.value) THEN removed \cup {Unwrap(at)} ELSE removed
           /\ removes' = IF IsSome(r.value) THEN removes + 1 ELSE removes
           /\ freed' = IF IsSome(r.value) THEN Append(freed, i) ELSE freed
           /\ lastOp' = [op |-> "remove_by_usize", index |-> i, ret |-> r.value, before |-> arena]
    /\ UNCHANGED <<data, lexer, out, exhausted, parser, depths, pc, taken_errors, inserts, minted, calls, ranges, report_data, reported>>

SetValue(idx, v) ==
    /\ arena' = ArenaSet(arena, idx, v)
    /\ lastOp' = [op |-> "get_mut", index |-> idx, value |-> v,
                  ret |-> ArenaGetMut(arena, idx), before |-> arena]
    /\ UNCHANGED <<live, removed, data, lexer, out, exhausted, parser, depths, pc, taken_errors, inserts, removes, minted, freed, calls, ranges, report_data, reported>>

NextArena ==
    \/ \E v \in 1..MaxValue : Insert(v)
    \/ \E idx \in IndexUniverse : Remove(idx)
    \/ \E i \in 0..MaxSize : RemoveByUsize(i)
    \/ \E idx \in IndexUniverse, v \in 1..MaxValue : SetValue(idx, v)

SpecArena == InitArena /\ [][NextArena]_vars

(***************************************************************************)
(* C1: get(idx) returns a value iff idx was returned by an insert and no   *)
(* remove of idx has succeeded since; once a remove of idx has succeeded,  *)
(* get, get_mut and remove of idx return nothing, also after the slot has  *)
(* been reoccupied.                                                        *)
(***************************************************************************)
C1_GetIffLive ==
    /\ \A idx \in IndexUniverse : IsSome(ArenaGet(arena, idx)) <=> idx \in live
    /\ \A idx \in removed :
        /\ ArenaGet(arena, idx) = None
        /\ ArenaGetMut(arena, idx) = None
        /\ ArenaRemove(arena, idx).value = None

\* a removed index whose slot a later insert has reoccupied
C1_Witness ==
    \E idx \in removed : IsSome(ArenaGetByUsize(arena, idx.index))

(***************************************************************************)
(* The lexer under test: one source text, lexed by any sequence of next    *)
(* and peek calls (SpecLex) or by next alone (SpecNext).                   *)
(***************************************************************************)
Alphabet == {SP, TAB, NL, CR, HASH, DQ, BQ, LETTER, EACUTE}

TextsUpTo(n, alphabet) == UNION {[1..k -> alphabet] : k \in 0..n}

\* the text of the lexer example: a b, newline, tab, c
ExampleLex == <<LETTER, SP, LETTER, NL, TAB, LETTER>>

Texts == TextsUpTo(MaxLen, Alphabet) \cup {ExampleLex}

\* Reader::new and Lexer::new: a fresh Data holding the text, and a lexer on it
Loaded(text) == DataInsertSource(DataDefault, Encode(text))

InitLex ==
    /\ IdleUse /\ IdleReport /\ IdleArena /\ IdleParser /\ IdleData /\ pc = "lex"
    /\ \E text \in Texts :
        /\ data = Loaded(text).data
        /\ lexer = LexerNew(Loaded(text).index)
    /\ out = <<>>
    /\ exhausted = FALSE
    /\ lastOp = [op |-> "new", ret |-> None, before |-> None]

\* what the call before this one returned, when it was a peek
PeekBefore == IF lastOp.op = "peek" THEN Some(lastOp.ret) ELSE None

LexNext ==
    /\ LET r == LexerNext(lexer, data)
       IN  /\ lexer' = r.lexer
           /\ out' = IF IsSome(r.item) THEN Append(out, Unwrap(r.item)) ELSE out
           /\ exhausted' = (exhausted \/ r.item = None)
           /\ lastOp' = [op |-> "next", ret |-> r.item, before |-> PeekBefore]
    /\ UNCHANGED <<arena, live, removed, data, parser, depths, pc, taken_errors, inserts, removes, minted, freed, calls, ranges, report_data, reported>>

LexPeek ==
    /\ LET r == LexerPeek(lexer, data)
       IN  /\ lexer' = r.lexer
           /\ lastOp' = [op |-> "peek", ret |-> r.item, before |-> PeekBefore]
    /\ UNCHANGED <<arena, live, removed, data, out, exhausted, parser, depths, pc, taken_errors, inserts, removes, minted, freed, calls, ranges, report_data, reported>>

NextLex == LexNext \/ LexPeek

SpecLex == InitLex /\ [][NextLex]_vars

SpecNext == InitLex /\ [][LexNext]_vars

\* the text under test and what a fresh lexer yields for it through next alone
Source == Unwrap(DataGetSource(data, lexer.source_index))
Items == Drain(LexerNew(lexer.source_index), data)

IsPrefix(s, t) == Len(s) <= Len(t) /\ SubSeq(t, 1, Len(s)) = s

(***************************************************************************)
(* The reading of a text the lexer claims are stated in: the role of every *)
(* byte, found by one pass over the bytes.  A byte is read in code (at the *)
(* cursor), inside a comment, inside a quoted string or inside a bareword. *)
(*   newline  a line feed, in code or ending a comment or an open string   *)
(*   indent   a space or tab with only spaces and tabs before it on its    *)
(*            line;  blank  any other space or tab in code                 *)
(*   hash, comment   the '#' met in code, and the bytes after it           *)
(*   open, string, close   a quote met in code, the bytes after it, and    *)
(*            the same quote met again on the line                         *)
(*   word0, word   an ASCII byte met in code that is none of the above,    *)
(*            and the non-whitespace ASCII bytes that follow it            *)
(*   bad, bad2   the two bytes of a non-ASCII character met in code        *)
(***************************************************************************)
\* the reading of one byte b met in a mode (code, word, comment, a quote, bad)
\* with sol telling that only spaces and tabs precede it on its line: its role,
\* and the mode and sol the next byte is met in
Read(role, mode, sol) == [role |-> role, mode |-> mode, sol |-> sol]

ReadByte(b, mode, sol) ==
    IF b = NL /\ mode # "bad" THEN Read("newline", "code", TRUE)
    ELSE IF mode = "bad" THEN Read("bad2", "code", FALSE)
    ELSE IF mode = "comment" THEN Read("comment", mode, sol)
    ELSE IF mode \in {DQ, BQ}
    THEN (IF b = mode THEN Read("close", "code", FALSE) ELSE Read("string", mode, FALSE))
    ELSE IF mode = "word" /\ b \notin {SP, TAB, NL, CR, FF, "C3"} THEN Read("word", "word", FALSE)
    ELSE IF b \in {SP, TAB}
    THEN Read(IF sol /\ mode = "code" THEN "indent" ELSE "blank", "code", sol /\ mode = "code")
    ELSE IF b = HASH THEN Read("hash", "comment", sol)
    ELSE IF b \in {DQ, BQ} THEN Read("open", b, FALSE)
    ELSE IF b = "C3" THEN Read("bad", "bad", FALSE)
    ELSE Read("word0", "word", FALSE)

RECURSIVE RolesFrom(_, _, _, _), RolesAfter(_, _, _)
RolesAfter(src, i, read) == <<read.role>> \o RolesFrom(src, i + 1, read.mode, read.sol)

RolesFrom(src, i, mode, sol) ==
    IF i > Len(src) THEN <<>> ELSE RolesAfter(src, i, ReadByte(src[i], mode, sol))

Roles(src) == RolesFrom(src, 1, "code", TRUE)

\* the byte offsets (0-based) of a text that have a given role
Offsets(src, role) == {p \in 0..(Len(src) - 1) : Roles(src)[p + 1] = role}

\* the offset of the first newline at or after offset p, or the end of the text
LineEnd(src, p) ==
    LET nls == {q \in p..(Len(src) - 1) : src[q + 1] = NL}
    IN  IF nls = {} THEN Len(src) ELSE CHOOSE q \in nls : \A r \in nls : q <= r

\* the offsets of the quotes that open a string no quote closes on its line
Unclosed(src) ==
    {p \in Offsets(src, "open") :
        \A q \in (p + 1)..(LineEnd(src, p) - 1) : src[q + 1] # src[p + 1]}

\* the offset of the first indenting byte whose kind (space, tab) is not the
\* kind of the first indenting byte of the text; {} when there is none
FirstMixed(src) ==
    LET ind == Offsets(src, "indent")
        first == CHOOSE p \in ind : \A q \in ind : p <= q
        other == {p \in ind : src[p + 1] # src[first + 1]}
    IN  IF ind = {} \/ other = {} THEN {}
        ELSE {CHOOSE p \in other : \A q \in other : p <= q}

\* the positions of out that hold an error of a kind, and the tokens of out
ErrorsAt(items, kind) ==
    {i \in 1..Len(items) : items[i].tag = "Err" /\ items[i].val.kind = kind}
TokensOf(items) == {items[i].val : i \in {j \in 1..Len(items) : items[j].tag = "Ok"}}

\* the sequence of the tokens of a sequence of items
RECURSIVE TokenSeq(_)
TokenSeq(items) ==
    IF items = <<>> THEN <<>>
    ELSE (IF Head(items).tag = "Ok" THEN <<Head(items).val>> ELSE <<>>)
         \o TokenSeq(Tail(items))

\* the first offset after p whose role is not the given one, or the end
RunEnd(roles, p, role) ==
    LET stops == {q \in (p + 1)..(Len(roles) - 1) : roles[q + 1] # role}
    IN  IF stops = {} THEN Len(roles) ELSE CHOOSE q \in stops : \A r \in stops : q <= r

\* the tokens the reading of a text calls for, in source order: a Newline per
\* newline, an Indent per indenting byte, a Symbol per bareword and per string
ReadToken(roles, p) ==
    IF roles[p + 1] = "newline" THEN <<Token("Newline", Span(p, p + 1))>>
    ELSE IF roles[p + 1] = "indent" THEN <<Token("Indent", Span(p, p + 1))>>
    ELSE IF roles[p + 1] = "word0" THEN <<Token("Symbol", Span(p, RunEnd(roles, p, "word")))>>
    ELSE IF roles[p + 1] = "open"
    THEN <<Token("Symbol", Span(p + 1, RunEnd(roles, p, "string")))>>
    ELSE <<>>

RECURSIVE ReadFrom(_, _)
ReadFrom(roles, p) ==
    IF p >= Len(roles) THEN <<>> ELSE ReadToken(roles, p) \o ReadFrom(roles, p + 1)

Reading(src) == ReadFrom(Roles(src), 0)

(***************************************************************************)
(* C2: peek never consumes and is idempotent: a peek returns what the call *)
(* after it returns, be it a peek or a next, and the items the next calls  *)
(* return are those a lexer yields that is never peeked, whatever peeks    *)
(* are made in between.                                                    *)
(***************************************************************************)
C2_PeekTransparent ==
    /\ IsSome(lastOp.before) => lastOp.ret = Unwrap(lastOp.before)
    /\ IsPrefix(out, Items)
    /\ exhausted => out = Items

(***************************************************************************)
(* C6: a MixedIndentation error is returned for the first indenting space  *)
(* or tab whose kind differs from the indentation seen before, and for no  *)
(* other byte; its span is exactly that byte, and the next call of next    *)
(* returns the Indent token of the same span.                              *)
(***************************************************************************)
C6_MixedIndentation ==
    LET errs == ErrorsAt(out, "MixedIndentation")
        mix == FirstMixed(Source)
    IN  /\ \A i \in errs :
            /\ \E p \in mix : out[i].val.span = Span(p, p + 1)
            /\ i < Len(out) => out[i + 1] = Ok(Token("Indent", out[i].val.span))
            /\ i = Len(out) => ~exhausted
        /\ Cardinality(errs) <= 1
        /\ exhausted => Cardinality(errs) = Cardinality(mix)

\* a line of one space, then one tab, lexed to the end
C6_Witness ==
    /\ exhausted
    /\ Len(Source) >= 2 /\ SubSeq(Source, 1, 2) = <<SP, TAB>>
    /\ out[2] = Err(LexError("MixedIndentation", Span(1, 2)))
    /\ out[3] = Ok(Token("Indent", Span(1, 2)))

(***************************************************************************)
(* C7: an UnclosedString error is returned for every quote that opens a    *)
(* string no matching quote closes before the newline or the end of the    *)
(* text, and for no other byte; the next call of next returns the Symbol   *)
(* that runs from just after the quote up to that newline or end.          *)
(***************************************************************************)
C7_UnclosedString ==
    LET errs == ErrorsAt(out, "UnclosedString")
        un == Unclosed(Source)
    IN  /\ \A i \in errs :
            LET p == out[i].val.span.start
            IN  /\ p \in un
                /\ i < Len(out) =>
                    out[i + 1] = Ok(Token("Symbol", Span(p + 1, LineEnd(Source, p))))
                /\ i = Len(out) => ~exhausted
        /\ exhausted => \A p \in un : \E i \in errs : out[i].val.span.start = p

\* an unclosed string of at least one character that a newline ends
C7_Witness ==
    /\ exhausted
    /\ \E i \in ErrorsAt(out, "UnclosedString") :
        /\ i < Len(out)
        /\ out[i + 1].val.kind = "Symbol"
        /\ out[i + 1].val.span.end > out[i + 1].val.span.start
        /\ out[i + 1].val.span.end < Len(Source)

(***************************************************************************)
(* C8: a NonAsciiCharacter error is returned for every non-ASCII character *)
(* met outside a string and a comment, and for nothing else; its span is   *)
(* exactly the bytes of the character; no token's span includes them; the  *)
(* cursor is left just after them with nothing buffered; and the tokens    *)
(* yielded are those the reading of the text calls for, with their spans.  *)
(***************************************************************************)
C8_NonAscii ==
    LET errs == ErrorsAt(out, "NonAsciiCharacter")
        bad == Offsets(Source, "bad")
    IN  /\ \A i \in errs :
            \E p \in bad : out[i].val.span = Span(p, p + 2)
        /\ \A i, j \in errs : out[i].val.span = out[j].val.span => i = j
        /\ exhausted => \A p \in bad : \E i \in errs : out[i].val.span.start = p
        /\ \A p \in bad : \A t \in TokensOf(out) :
            t.span.end <= p \/ t.span.start >= p + 2
        /\ (IsSome(lastOp.ret) /\ Unwrap(lastOp.ret).tag = "Err"
                /\ Unwrap(lastOp.ret).val.kind = "NonAsciiCharacter") =>
            /\ lexer.byte_offset = Unwrap(lastOp.ret).val.span.end
            /\ lexer.lookahead = None
        /\ bad # {} => IsPrefix(TokenSeq(out), Reading(Source))
        /\ (bad # {} /\ exhausted) => TokenSeq(out) = Reading(Source)

\* a non-ASCII character between two barewords of one line
C8_Witness ==
    /\ exhausted
    /\ out = <<Ok(Token("Symbol", Span(0, 1))),
               Err(LexError("NonAsciiCharacter", Span(1, 3))),
               Ok(Token("Symbol", Span(3, 4)))>>

(***************************************************************************)
(* C9: lexing a text to the end yields exactly one NonAsciiCharacter error *)
(* for each non-ASCII character of the text, wherever it stands, and no    *)
(* token's lexeme contains a non-ASCII character.                          *)
(***************************************************************************)
C9_EveryNonAsciiIsError ==
    exhausted =>
        /\ \A p \in {q \in 0..(Len(Source) - 1) : Source[q + 1] = "C3"} :
            Cardinality({i \in ErrorsAt(out, "NonAsciiCharacter") :
                            out[i].val.span = Span(p, p + 2)}) = 1
        /\ Cardinality(ErrorsAt(out, "NonAsciiCharacter"))
            = Cardinality({q \in 0..(Len(Source) - 1) : Source[q + 1] = "C3"})
        /\ \A t \in TokensOf(out) :
            \A q \in t.span.start..(t.span.end - 1) : Source[q + 1] # "C3"

(***************************************************************************)
(* C10: for a text with no non-ASCII character, no unclosed quote and no   *)
(* mixed indentation, next returns only tokens, and they are, in source    *)
(* order, the tokens the reading of the text calls for: a Newline per      *)
(* newline, an Indent per indenting space or tab, a Symbol per bareword    *)
(* and per quoted string without its quotes, and nothing for the other     *)
(* spaces and tabs and for comments; then next returns nothing.            *)
(***************************************************************************)
Clean(src) ==
    /\ \A q \in 1..Len(src) : src[q] # "C3"
    /\ Unclosed(src) = {}
    /\ FirstMixed(src) = {}

C10_WitnessComment ==
    /\ exhausted
    /\ Clean(Source)
    /\ Offsets(Source, "comment") # {}
    /\ Offsets(Source, "close") # {}

(***************************************************************************)
(* The parser under test: one source text, parsed by one call of parse.    *)
(***************************************************************************)
\* the text of the parser example: a, tab b, tab c, tab tab d, e
ExampleTree == <<LETTER, NL, TAB, LETTER, NL, TAB, LETTER, NL, TAB, TAB, LETTER, NL, LETTER>>

ParseTexts ==
    TextsUpTo(MaxLen, Alphabet) \cup TextsUpTo(MaxTreeLen, {LETTER, NL, TAB})
        \cup {ExampleTree}

InitParse ==
    /\ IdleUse /\ IdleReport /\ IdleArena /\ IdleLexer /\ IdleData /\ pc = "new"
    /\ \E text \in ParseTexts :
        /\ data = Loaded(text).data
        /\ parser = ParserNew(Loaded(text).index)
    /\ depths = <<>>
    /\ taken_errors = <<>>

Parse ==
    /\ pc = "new"
    /\ LET r == ParserParse(parser, data, depths)
       IN  /\ parser' = r.parser
           /\ data' = r.data
           /\ depths' = r.depths
    /\ pc' = "parsed"
    /\ UNCHANGED <<arena, live, removed, lexer, out, exhausted, lastOp, taken_errors, inserts, removes, minted, freed, calls, ranges, report_data, reported>>

\* take_errors after parse, at most MaxTakes times
TakeErrors ==
    /\ pc = "parsed"
    /\ Len(taken_errors) < MaxTakes
    /\ LET r == ParserTakeErrors(parser)
       IN  /\ parser' = r.parser
           /\ taken_errors' = Append(taken_errors, r.errors)
    /\ UNCHANGED <<arena, live, removed, data, lexer, out, exhausted, lastOp, depths, inserts, removes, pc, minted, freed, calls, ranges, report_data, reported>>

NextParse == Parse \/ TakeErrors

SpecParse == InitParse /\ [][NextParse]_vars

\* the text the parser was given, what a fresh lexer yields for it through next
\* alone, and whether parse has returned
ParseSource == Unwrap(DataGetSource(data, parser.lexer.source_index))
ParseItems == Drain(LexerNew(parser.lexer.source_index), data)
Parsed == pc = "parsed"

\* the Symbol tokens of a sequence of tokens
SymbolsOf(tokens) == SelectSeq(tokens, LAMBDA t : t.kind = "Symbol")

\* the node indices registered as roots, in order
RootIndices == [r \in 1..Len(data.root_nodes) |-> data.root_nodes[r][2]]

\* the tokens stored in a tree of nodes and in a sequence of trees, in pre-order
RECURSIVE TreeTokens(_, _), ForestTokens(_, _)
TreeTokens(d, index) ==
    Unwrap(DataGetTokens(d, index))
        \o ForestTokens(d, IF IsSome(DataGetChildren(d, index))
                           THEN Unwrap(DataGetChildren(d, index)) ELSE <<>>)

ForestTokens(d, indices) ==
    IF indices = <<>> THEN <<>>
    ELSE TreeTokens(d, Head(indices)) \o ForestTokens(d, Tail(indices))

\* the kinds of lexical error a fresh lexer reports for the text
ErrorKinds(items) == {items[i].val.kind : i \in {j \in 1..Len(items) : items[j].tag = "Err"}}

(***************************************************************************)
(* C3: the parser never drops a token because of a lexical error: after    *)
(* parse, the Symbol tokens stored in the nodes, read root by root and     *)
(* parent before children, are exactly the Symbol tokens a fresh lexer     *)
(* yields for the text through next alone, in the same order; so the       *)
(* partial Symbol buffered after an UnclosedString error is in a node.     *)
(***************************************************************************)
C3_NoTokenDropped ==
    Parsed =>
        /\ ForestTokens(data, RootIndices) = SymbolsOf(TokenSeq(ParseItems))
        /\ \A i \in ErrorsAt(ParseItems, "UnclosedString") :
            \E n \in 1..Len(ArenaOccupied(data.nodes)) :
                \E t \in 1..Len(Unwrap(ArenaGet(data.nodes, ArenaOccupied(data.nodes)[n])).tokens) :
                    Unwrap(ArenaGet(data.nodes, ArenaOccupied(data.nodes)[n])).tokens[t]
                        = ParseItems[i + 1].val

\* the offset at which the line holding offset p starts
LineStart(src, p) ==
    LET nls == {q \in 0..(p - 1) : src[q + 1] = NL}
    IN  IF nls = {} THEN 0 ELSE 1 + (CHOOSE q \in nls : \A r \in nls : r <= q)

\* the number of spaces and tabs a line starts with, s being the line's start
LeadingBlanks(src, s) ==
    LET stops == {q \in s..(Len(src) - 1) : src[q + 1] \notin {SP, TAB}}
    IN  (IF stops = {} THEN Len(src) ELSE CHOOSE q \in stops : \A r \in stops : q <= r) - s

(***************************************************************************)
(* C4: the depth the parser assigns to a line is the raw count of the      *)
(* line's leading space and tab characters, a character reported as        *)
(* MixedIndentation included: whenever node takes its depth with a Symbol  *)
(* pending, the depth is the number of spaces and tabs the Symbol's line   *)
(* starts with.                                                            *)
(***************************************************************************)
C4_DepthIsRawCount ==
    Parsed =>
        \A n \in 1..Len(depths) :
            IsSome(depths[n].at) =>
                /\ Unwrap(depths[n].at).kind = "Symbol"
                /\ depths[n].depth
                    = LeadingBlanks(ParseSource,
                                    LineStart(ParseSource, Unwrap(depths[n].at).span.start))

\* the lines of a sequence of tokens: the runs of tokens between its Newlines
RECURSIVE SplitLines(_, _)
SplitLines(tokens, line) ==
    IF tokens = <<>> THEN <<line>>
    ELSE IF Head(tokens).kind = "Newline" THEN <<line>> \o SplitLines(Tail(tokens), <<>>)
    ELSE SplitLines(Tail(tokens), Append(line, Head(tokens)))

\* the lines of a text that carry a Symbol, by the reading of the text
SymbolLines(src) ==
    SelectSeq(SplitLines(Reading(src), <<>>), LAMBDA line : SymbolsOf(line) # <<>>)

\* the depth of a line: the number of its indenting spaces and tabs
LineDepth(line) == Len(SelectSeq(line, LAMBDA t : t.kind = "Indent"))

\* the nearest line before line i with a strictly smaller depth; 0 when none
ParentLine(lines, i) ==
    LET above == {j \in 1..(i - 1) : LineDepth(lines[j]) < LineDepth(lines[i])}
    IN  IF above = {} THEN 0 ELSE CHOOSE j \in above : \A k \in above : k <= j

\* the elements of a finite set of numbers, ascending
RECURSIVE Ascending(_)
Ascending(S) ==
    IF S = {} THEN <<>>
    ELSE LET least == CHOOSE x \in S : \A y \in S : x <= y
         IN  <<least>> \o Ascending(S \ {least})

\* the lines whose parent line is line i, in source order (i = 0: the roots)
ChildLines(lines, i) == Ascending({k \in 1..Len(lines) : ParentLine(lines, k) = i})

\* the tree the indentation of the lines calls for at line i
RECURSIVE ExpectedTree(_, _)
ExpectedTree(lines, i) ==
    [tag |-> IF ChildLines(lines, i) = <<>> THEN "Some" ELSE "Parent",
     tokens |-> SymbolsOf(lines[i]),
     children |-> [k \in 1..Len(ChildLines(lines, i)) |->
                      ExpectedTree(lines, ChildLines(lines, i)[k])]]

\* the tree stored at a node index: the node with its children looked up
RECURSIVE StoredTree(_, _)
StoredTree(d, index) ==
    LET n == Unwrap(DataGetNode(d, index))
    IN  [tag |-> n.tag, tokens |-> n.tokens,
         children |-> [k \in 1..Len(n.children) |-> StoredTree(d, n.children[k])]]

\* a Leaf and a Parent as trees
Leaf(start) ==
    [tag |-> "Some", tokens |-> <<Token("Symbol", Span(start, start + 1))>>, children |-> <<>>]
Branch(start, children) ==
    [tag |-> "Parent", tokens |-> <<Token("Symbol", Span(start, start + 1))>>,
     children |-> children]

(***************************************************************************)
(* C5: for a text without lexical errors that holds a Symbol, parse builds *)
(* the indentation forest: one node per line that carries a Symbol, with   *)
(* that line's Symbols in order; the node of a line is a child of the node *)
(* of the nearest line before it with a strictly smaller depth, and a root *)
(* when there is none; children and roots are in source order; a node is a *)
(* Parent iff it has a child, else a Leaf.  For the lines a, tab b, tab c, *)
(* tab tab d, e: roots a and e, a has children b and c, c has child d.     *)
(***************************************************************************)
C5_IndentationForest ==
    (Parsed /\ ErrorKinds(ParseItems) = {} /\ SymbolsOf(TokenSeq(ParseItems)) # <<>>) =>
        LET lines == SymbolLines(ParseSource)
            roots == ChildLines(lines, 0)
        IN  /\ ArenaSize(data.nodes) = Len(lines) + 1
            /\ Len(data.root_nodes) = Len(roots)
            /\ \A r \in 1..Len(roots) :
                /\ data.root_nodes[r][1] = parser.lexer.source_index
                /\ StoredTree(data, data.root_nodes[r][2]) = ExpectedTree(lines, roots[r])
            /\ ParseSource = Encode(ExampleTree) =>
                [r \in 1..Len(data.root_nodes) |-> StoredTree(data, data.root_nodes[r][2])]
                    = <<Branch(0, <<Leaf(3), Branch(6, <<Leaf(10)>>)>>), Leaf(12)>>

\* the example text, parsed: two roots, five nodes besides the error node
C5_Witness ==
    /\ Parsed
    /\ ParseSource = Encode(ExampleTree)
    /\ Len(data.root_nodes) = 2
    /\ ArenaSize(data.nodes) = 6

(***************************************************************************)
(* The Data under test: one source, grown by push_source, and nodes built  *)
(* by hand with insert_node, push_child and push_token, in any order.      *)
(***************************************************************************)
\* the texts push_source appends
Words == {<<>>, <<LETTER>>}

\* the NodeIndex values a caller may hold: those of the slots, one past the
\* last slot, and one of a generation no node has
NodeIndexUniverse == {ArenaIndex(0, i) : i \in 0..(MaxNodes + 1)} \cup {ArenaIndex(1, 1)}

\* the NodeIndex values given as a child or as a root: those of the slots
StoredIndexUniverse == {ArenaIndex(0, i) : i \in 0..MaxNodes}

\* the one source of the Data under test
TheSource == ArenaIndex(0, 0)

\* the number of child entries and of token entries stored in the nodes
RECURSIVE Sum(_)
Sum(numbers) == IF numbers = <<>> THEN 0 ELSE Head(numbers) + Sum(Tail(numbers))

Edges(d) == Sum([i \in 1..Len(d.nodes.arena) |-> Len(d.nodes.arena[i].value.children)])
TokenEntries(d) == Sum([i \in 1..Len(d.nodes.arena) |-> Len(d.nodes.arena[i].value.tokens)])

InitData ==
    /\ IdleUse /\ IdleReport /\ IdleArena /\ IdleParser /\ pc = "data"
    /\ lexer = None /\ out = <<>> /\ exhausted = FALSE
    /\ data = DataInsertSource(DataDefault, <<>>).data
    /\ minted = {}
    /\ lastOp = [op |-> "new"]

SourcePush(append) ==
    /\ LET r == DataPushSource(data, TheSource, Encode(append))
           token == Token("Symbol", Span(Unwrap(r.range)[1], Unwrap(r.range)[2]))
       IN  /\ Cardinality(minted \cup {token}) <= MaxMinted
           /\ data' = r.data
           /\ minted' = minted \cup {token}
           /\ lastOp' = [op |-> "push_source", ret |-> r.range]
    /\ UNCHANGED <<arena, live, removed, lexer, out, exhausted, parser, depths, taken_errors, inserts, removes, pc, freed, calls, ranges, report_data, reported>>

NodeInsert(node) ==
    /\ ArenaSize(data.nodes) <= MaxNodes
    /\ TokenEntries(data) + Len(node.tokens) <= MaxTokens
    /\ LET r == DataInsertNode(data, node)
       IN  /\ data' = r.data
           /\ lastOp' = [op |-> "insert_node", ret |-> r.index]
    /\ UNCHANGED <<arena, live, removed, lexer, out, exhausted, parser, depths, taken_errors, inserts, removes, minted, pc, freed, calls, ranges, report_data, reported>>

ChildPush(node_index, child_index) ==
    /\ Edges(data) < MaxEdges
    /\ data' = DataPushChild(data, node_index, child_index)
    /\ lastOp' = [op |-> "push_child", node |-> node_index, child |-> child_index]
    /\ UNCHANGED <<arena, live, removed, lexer, out, exhausted, parser, depths, taken_errors, inserts, removes, minted, pc, freed, calls, ranges, report_data, reported>>

TokenPush(node_index, token) ==
    /\ TokenEntries(data) < MaxTokens
    /\ data' = DataPushToken(data, node_index, token)
    /\ lastOp' = [op |-> "push_token", node |-> node_index, token |-> token]
    /\ UNCHANGED <<arena, live, removed, lexer, out, exhausted, parser, depths, taken_errors, inserts, removes, minted, pc, freed, calls, ranges, report_data, reported>>

RootPush(node_index) ==
    /\ Len(data.root_nodes) < MaxRoots
    /\ data' = DataPushRootNode(data, TheSource, node_index)
    /\ lastOp' = [op |-> "push_root_node", node |-> node_index]
    /\ UNCHANGED <<arena, live, removed, lexer, out, exhausted, parser, depths, taken_errors, inserts, removes, minted, freed, pc, calls, ranges, report_data, reported>>

NextData ==
    \/ \E append \in Words : SourcePush(append)
    \/ \E node \in {NodeSome(<<>>), NodeError} \cup {NodeSome(<<t>>) : t \in minted} :
          NodeInsert(node)
    \/ \E node_index \in NodeIndexUniverse, child_index \in StoredIndexUniverse :
          ChildPush(node_index, child_index)
    \/ \E node_index \in NodeIndexUniverse, token \in minted : TokenPush(node_index, token)
    \/ \E node_index \in StoredIndexUniverse : RootPush(node_index)

SpecData == InitData /\ [][NextData]_vars

(***************************************************************************)
(* The writer under test: a tree built with push_source, insert_node,      *)
(* push_token and push_child after a plan, then written by one call.  A    *)
(* plan lists the nodes in the order they are inserted: for each the texts *)
(* of its tokens and the place in the plan of its parent (0 for the first  *)
(* node, the root).                                                        *)
(***************************************************************************)
\* the texts of the tokens
Lexemes == {<<>>, <<LETTER>>, <<DQ>>, <<DQ, BQ>>, <<NL>>, <<LETTER, SP, EACUTE>>}

\* the token texts of one node: none, one, or two of which one is a letter
Rows ==
    {<<>>} \cup {<<w>> : w \in Lexemes}
        \cup {<<w, <<LETTER>>>> : w \in Lexemes} \cup {<<<<LETTER>>, w>> : w \in Lexemes}

Plans ==
    UNION {{plan \in [1..n -> [row : Rows, parent : 0..(n - 1)]] :
               \A k \in 1..n : IF k = 1 THEN plan[k].parent = 0
                                ELSE plan[k].parent \in 1..(k - 1)} : n \in 1..MaxPlan}

\* push_source of every text of a row, and push_token of the range returned
RECURSIVE PushRow(_, _, _)
PushRow(d, node_index, row) ==
    IF row = <<>> THEN d
    ELSE Then(DataPushSource(d, TheSource, Encode(Head(row))), LAMBDA pushed :
              PushRow(DataPushToken(pushed.data, node_index,
                                    Token("Symbol", Span(Unwrap(pushed.range)[1],
                                                         Unwrap(pushed.range)[2]))),
                      node_index, Tail(row)))

\* the calls that build node k of a plan and those after it; the node of place
\* k is the k-th inserted, in slot k
RECURSIVE Build(_, _, _)
Build(d, plan, k) ==
    IF k > Len(plan) THEN d
    ELSE Then(DataInsertNode(d, NodeSome(<<>>)), LAMBDA inserted :
         Then(PushRow(inserted.data, inserted.index, plan[k].row), LAMBDA filled :
              Build(IF plan[k].parent = 0 THEN filled
                    ELSE DataPushChild(filled, ArenaIndex(0, plan[k].parent), inserted.index),
                    plan, k + 1)))

InitWrite ==
    /\ IdleUse /\ IdleReport /\ IdleArena /\ IdleParser /\ pc = "write"
    /\ lexer = None /\ out = <<>> /\ exhausted = FALSE
    /\ \E plan \in Plans : data = Build(DataInsertSource(DataDefault, <<>>).data, plan, 1)
    /\ minted = UNION {{n.value.tokens[t] : t \in 1..Len(n.value.tokens)} :
                           n \in {data.nodes.arena[i] : i \in 1..Len(data.nodes.arena)}}
    /\ lastOp = [op |-> "new"]

Write(node_index, indentation) ==
    /\ pc = "write"
    /\ lastOp.op = "new"
    /\ lastOp' = [op |-> "write", node |-> node_index, indentation |-> indentation,
                  ret |-> DataWrite(data, <<>>, TheSource, node_index, indentation)]
    /\ UNCHANGED <<arena, live, removed, data, lexer, out, exhausted, parser, depths, taken_errors, inserts, removes, minted, pc, freed, calls, ranges, report_data, reported>>

NextWrite == \E node_index \in NodeIndexUniverse, indentation \in 0..1 : Write(node_index, indentation)

SpecWrite == InitWrite /\ [][NextWrite]_vars

(***************************************************************************)
(* The Data under use: a Data with one source, then up to MaxCalls calls   *)
(* of its methods, of Parser::parse and of a fresh Lexer, in any order and *)
(* with any index a caller may hold.  A call that panics ends the run.     *)
(***************************************************************************)
\* the text of the first source
UseTexts ==
    {<<>>, <<LETTER, NL, LETTER>>, <<LETTER, NL, TAB, LETTER, NL, TAB, LETTER>>, <<EACUTE>>}

\* the texts push_source appends
UseWords == {<<>>, <<EACUTE>>, <<NL, LETTER>>}

\* the SourceIndex values a caller may hold: the first source, the second, and
\* one of a generation no source has
SourceIndexUniverse == {ArenaIndex(0, 0), ArenaIndex(0, 1), ArenaIndex(1, 0)}

\* the token given to insert_node and push_token
UseToken == Token("Symbol", Span(0, 1))

\* the tokens get_lexeme is asked for
AskedTokens == {Token("Symbol", Span(start, end)) : start \in 0..1, end \in 1..3}

InitUse ==
    /\ arena = ArenaDefault /\ live = {} /\ removed = {}
    /\ inserts = 0 /\ removes = 0 /\ freed = <<>>
    /\ IdleParser /\ IdleData /\ IdleUse /\ IdleReport /\ pc = "use"
    /\ lexer = None /\ out = <<>> /\ exhausted = FALSE
    /\ \E text \in UseTexts : data = DataInsertSource(DataDefault, Encode(text)).data
    /\ lastOp = [op |-> "new"]

\* one more call may be made
Called ==
    /\ pc = "use"
    /\ calls < MaxCalls
    /\ calls' = calls + 1

UseInsertSource(text) ==
    /\ Called
    /\ LET r == DataInsertSource(data, Encode(text))
       IN  /\ data' = r.data
           /\ lastOp' = [op |-> "insert_source", ret |-> r.index]
    /\ UNCHANGED <<arena, live, removed, lexer, out, exhausted, parser, depths, taken_errors, inserts, removes, minted, freed, ranges, pc, report_data, reported>>

UsePushSource(source_index, append) ==
    /\ Called
    /\ LET r == DataPushSource(data, source_index, Encode(append))
       IN  /\ data' = r.data
           /\ lastOp' = [op |-> "push_source", source |-> source_index,
                         append |-> Encode(append), ret |-> r.range]
           /\ ranges' = IF IsSome(r.range)
                        THEN Append(ranges, [source |-> source_index,
                                             range |-> Unwrap(r.range)])
                        ELSE ranges
    /\ UNCHANGED <<arena, live, removed, lexer, out, exhausted, parser, depths, taken_errors, inserts, removes, minted, freed, pc, report_data, reported>>

UseInsertNode(node) ==
    /\ Called
    /\ LET r == DataInsertNode(data, node)
       IN  /\ data' = r.data
           /\ lastOp' = [op |-> "insert_node", ret |-> r.index]
    /\ UNCHANGED <<arena, live, removed, lexer, out, exhausted, parser, depths, taken_errors, inserts, removes, minted, freed, ranges, pc, report_data, reported>>

UsePushChild(node_index, child_index) ==
    /\ Called
    /\ data' = DataPushChild(data, node_index, child_index)
    /\ lastOp' = [op |-> "push_child", node |-> node_index]
    /\ UNCHANGED <<arena, live, removed, lexer, out, exhausted, parser, depths, taken_errors, inserts, removes, minted, freed, ranges, pc, report_data, reported>>

UsePushToken(node_index, token) ==
    /\ Called
    /\ data' = DataPushToken(data, node_index, token)
    /\ lastOp' = [op |-> "push_token", node |-> node_index]
    /\ UNCHANGED <<arena, live, removed, lexer, out, exhausted, parser, depths, taken_errors, inserts, removes, minted, freed, ranges, pc, report_data, reported>>

UsePushRootNode(source_index, node_index) ==
    /\ Called
    /\ data' = DataPushRootNode(data, source_index, node_index)
    /\ lastOp' = [op |-> "push_root_node"]
    /\ UNCHANGED <<arena, live, removed, lexer, out, exhausted, parser, depths, taken_errors, inserts, removes, minted, freed, ranges, pc, report_data, reported>>

\* Parser::new(source_index).parse(&mut data), then take_errors
UseParse(source_index) ==
    /\ Called
    /\ IF ParserParseAborts(ParserNew(source_index), data)
       THEN /\ data' = data
            /\ lastOp' = [op |-> "parse", source |-> source_index, aborted |-> TRUE]
            /\ pc' = "aborted"
       ELSE /\ LET r == ParserParse(ParserNew(source_index), data, <<>>)
               IN  /\ data' = r.data
                   /\ lastOp' = [op |-> "parse", source |-> source_index,
                                 aborted |-> FALSE,
                                 errors |-> ParserTakeErrors(r.parser).errors]
            /\ pc' = pc
    /\ UNCHANGED <<arena, live, removed, lexer, out, exhausted, parser, depths, taken_errors, inserts, removes, minted, freed, ranges, report_data, reported>>

\* Lexer::new(source_index).next(&data)
UseNext(source_index) ==
    /\ Called
    /\ IF AdvanceAborts(LexerNew(source_index), data)
       THEN /\ lastOp' = [op |-> "next", source |-> source_index, aborted |-> TRUE]
            /\ pc' = "aborted"
       ELSE /\ lastOp' = [op |-> "next", source |-> source_index, aborted |-> FALSE,
                          ret |-> LexerNext(LexerNew(source_index), data).item]
            /\ pc' = pc
    /\ UNCHANGED <<arena, live, removed, lexer, out, exhausted, parser, depths, taken_errors, inserts, removes, minted, freed, data, ranges, report_data, reported>>

\* Lexer::new(source_index).peek(&data)
UsePeek(source_index) ==
    /\ Called
    /\ IF AdvanceAborts(LexerNew(source_index), data)
       THEN /\ lastOp' = [op |-> "peek", source |-> source_index, aborted |-> TRUE]
            /\ pc' = "aborted"
       ELSE /\ lastOp' = [op |-> "peek", source |-> source_index, aborted |-> FALSE,
                          ret |-> LexerPeek(LexerNew(source_index), data).item]
            /\ pc' = pc
    /\ UNCHANGED <<arena, live, removed, lexer, out, exhausted, parser, depths, taken_errors, inserts, removes, minted, freed, data, ranges, report_data, reported>>

\* get_source of one index
UseGetSource(source_index) ==
    /\ Called
    /\ lastOp' = [op |-> "get_source", source |-> source_index,
                  ret |-> DataGetSource(data, source_index)]
    /\ UNCHANGED <<arena, live, removed, lexer, out, exhausted, parser, depths, taken_errors, inserts, removes, minted, freed, data, ranges, pc, report_data, reported>>

\* get_lexeme of one source, for every token asked for
UseGetLexeme(source_index) ==
    /\ Called
    /\ lastOp' = [op |-> "get_lexeme", source |-> source_index,
                  ret |-> [token \in AskedTokens |-> DataGetLexeme(data, source_index, token)]]
    /\ UNCHANGED <<arena, live, removed, lexer, out, exhausted, parser, depths, taken_errors, inserts, removes, minted, freed, data, ranges, pc, report_data, reported>>

\* filter, collected, with every predicate
UseFilter ==
    /\ Called
    /\ lastOp' = [op |-> "filter",
                  ret |-> [predicate \in Predicates |-> DataFilter(data, predicate)]]
    /\ UNCHANGED <<arena, live, removed, lexer, out, exhausted, parser, depths, taken_errors, inserts, removes, minted, freed, data, ranges, pc, report_data, reported>>

\* filter_children of one node, collected, with every predicate
UseFilterChildren(node_index) ==
    /\ Called
    /\ lastOp' = [op |-> "filter_children", node |-> node_index,
                  ret |-> [predicate \in Predicates |->
                              DataFilterChildren(data, TheSource, node_index, predicate)]]
    /\ UNCHANGED <<arena, live, removed, lexer, out, exhausted, parser, depths, taken_errors, inserts, removes, minted, freed, data, ranges, pc, report_data, reported>>

NextUse ==
    \/ UseInsertSource(<<LETTER>>)
    \/ \E source_index \in SourceIndexUniverse, append \in UseWords :
          UsePushSource(source_index, append)
    \/ \E node \in {NodeSome(<<>>), NodeSome(<<UseToken>>), NodeError} : UseInsertNode(node)
    \/ \E node_index \in NodeIndexUniverse, child_index \in StoredIndexUniverse :
          UsePushChild(node_index, child_index)
    \/ \E node_index \in NodeIndexUniverse : UsePushToken(node_index, UseToken)
    \/ \E source_index \in SourceIndexUniverse, node_index \in StoredIndexUniverse :
          UsePushRootNode(source_index, node_index)
    \/ \E source_index \in SourceIndexUniverse : UseParse(source_index)
    \/ \E source_index \in SourceIndexUniverse : UseNext(source_index)
    \/ \E source_index \in SourceIndexUniverse : UsePeek(source_index)
    \/ \E source_index \in SourceIndexUniverse : UseGetSource(source_index)
    \/ \E source_index \in SourceIndexUniverse : UseGetLexeme(source_index)
    \/ UseFilter
    \/ \E node_index \in NodeIndexUniverse : UseFilterChildren(node_index)

SpecUse == InitUse /\ [][NextUse]_vars

(***************************************************************************)
(* The writer on graphs: nodes with one token each, and child entries      *)
(* pushed with push_child from any node to any node, itself and the Error  *)
(* node included, so that nodes are shared and lie on cycles.  One call of *)
(* write or of write_root_nodes is made on each graph.                     *)
(***************************************************************************)
\* the second source of the graph
OtherSource == ArenaIndex(0, 1)

\* the child entries of a graph, in the order they are pushed
EdgePlans(n) ==
    UNION {[1..k -> [from : 1..n, to : 0..n]] : k \in 0..MaxGraphEdges}

\* insert_node of n Leaf nodes with the token a
RECURSIVE InsertLeaves(_, _)
InsertLeaves(d, n) ==
    IF n = 0 THEN d
    ELSE InsertLeaves(DataInsertNode(d, NodeSome(<<UseToken>>)).data, n - 1)

\* push_child of every entry of a plan from entry k on
RECURSIVE PushEdges(_, _, _)
PushEdges(d, edges, k) ==
    IF k > Len(edges) THEN d
    ELSE PushEdges(DataPushChild(d, ArenaIndex(0, edges[k].from), ArenaIndex(0, edges[k].to)),
                   edges, k + 1)

\* the root lists given to write_root_nodes
RootLists ==
    LET pairs == {<<source_index, ArenaIndex(0, i)>> :
                     source_index \in {TheSource, OtherSource}, i \in 0..MaxGraph}
    IN  {<<>>} \cup {<<p>> : p \in pairs} \cup {<<p, q>> : p \in pairs, q \in pairs}

InitGraph ==
    /\ IdleUse /\ IdleReport /\ IdleArena /\ IdleParser /\ pc = "graph"
    /\ lexer = None /\ out = <<>> /\ exhausted = FALSE
    /\ minted = {UseToken}
    /\ \E n \in 1..MaxGraph : \E edges \in EdgePlans(n) :
           data = PushEdges(InsertLeaves(
                                DataInsertSource(
                                    DataInsertSource(DataDefault, <<LETTER>>).data,
                                    <<LETTER>>).data, n),
                            edges, 1)
    /\ lastOp = [op |-> "new"]

GraphWrite(source_index, node_index, indentation) ==
    /\ pc = "graph"
    /\ lastOp.op = "new"
    /\ LET w == DataWriteAll(data, <<>>, source_index, node_index, indentation)
       IN  lastOp' = [op |-> "write", source |-> source_index, node |-> node_index,
                      ret |-> w.output, written |-> w.written]
    /\ UNCHANGED <<arena, live, removed, data, lexer, out, exhausted, parser, depths, taken_errors, inserts, removes, minted, freed, calls, ranges, pc, report_data, reported>>

GraphWriteRootNodes(root_nodes) ==
    /\ pc = "graph"
    /\ lastOp.op = "new"
    /\ LET w == DataWriteRootNodes(data, <<>>, root_nodes)
       IN  lastOp' = [op |-> "write_root_nodes", roots |-> root_nodes,
                      ret |-> w.output, written |-> w.written]
    /\ UNCHANGED <<arena, live, removed, data, lexer, out, exhausted, parser, depths, taken_errors, inserts, removes, minted, freed, calls, ranges, pc, report_data, reported>>

NextGraph ==
    \/ \E source_index \in {TheSource, OtherSource},
          node_index \in {ArenaIndex(0, i) : i \in 0..(MaxGraph + 1)} :
          GraphWrite(source_index, node_index, 0)
    \/ \E root_nodes \in RootLists : GraphWriteRootNodes(root_nodes)

SpecGraph == InitGraph /\ [][NextGraph]_vars

(***************************************************************************)
(* C11: after parse, take_errors returns exactly one ParseError for each   *)
(* lexical error a fresh lexer yields for the text, in source order, each  *)
(* with the span of the lexical error it wraps; a second take_errors with  *)
(* no parsing in between returns an empty sequence.                        *)
(***************************************************************************)
\* the lexical errors of a sequence of items, in order
RECURSIVE ErrorSeq(_)
ErrorSeq(items) ==
    IF items = <<>> THEN <<>>
    ELSE (IF Head(items).tag = "Err" THEN <<Head(items).val>> ELSE <<>>)
         \o ErrorSeq(Tail(items))

\* the parse errors that wrap a sequence of lexical errors
Wrapped(errors) ==
    [i \in 1..Len(errors) |->
        [kind |-> [tag |-> "LexError", error |-> errors[i]], span |-> errors[i].span]]

C11_TakeErrors ==
    Parsed =>
        /\ taken_errors = <<>> => parser.errors = Wrapped(ErrorSeq(ParseItems))
        /\ Len(taken_errors) >= 1 => taken_errors[1] = Wrapped(ErrorSeq(ParseItems))
        /\ \A k \in 2..Len(taken_errors) : taken_errors[k] = <<>>
        /\ taken_errors # <<>> => parser.errors = <<>>

\* a text with two lexical errors, parsed, its errors taken twice
C11_Witness ==
    /\ Parsed
    /\ Len(taken_errors) = 2
    /\ Len(taken_errors[1]) >= 2
    /\ taken_errors[1][1].kind.error.kind # taken_errors[1][2].kind.error.kind
    /\ taken_errors[2] = <<>>

(***************************************************************************)
(* C12: parse terminates for every text, with or without lexical errors:   *)
(* every call of node is made with a token pending and has consumed at     *)
(* least one token when it reaches its child loop, so the number of tokens *)
(* ahead falls from each call of node to the next and there are at most as *)
(* many calls as tokens; and when parse has returned the lexer is          *)
(* exhausted: nothing is pending and next returns nothing.                 *)
(***************************************************************************)
C12_ParseTerminates ==
    Parsed =>
        /\ \A n \in 1..Len(depths) :
            /\ depths[n].pending > 0
            /\ depths[n].left < depths[n].pending
            /\ n < Len(depths) => depths[n + 1].pending <= depths[n].left
        /\ Len(depths) <= Len(TokensAhead(ParserNew(parser.lexer.source_index), data))
        /\ TokensAhead(parser, data) = <<>>
        /\ LexerNext(parser.lexer, data).item = None
        /\ parser.lexer.byte_offset = Len(ParseSource)

\* a text with a lexical error, parsed by two calls of node, the first of
\* which returned with tokens left
C12_Witness ==
    /\ Parsed
    /\ ErrorKinds(ParseItems) # {}
    /\ Len(depths) = 2
    /\ depths[1].left > 0

(***************************************************************************)
(* C13: round trip.  For every acyclic tree built only with insert_node,   *)
(* push_child and push_token, its tokens minted from push_source ranges,   *)
(* writing it with write and then lexing and parsing the written text      *)
(* yields an isomorphic tree: one root, the same shape and, node by node,  *)
(* the same sequence of token lexemes.                                     *)
(***************************************************************************)
\* the nodes met from a node down, parent before children, to a depth of fuel
RECURSIVE Preorder(_, _, _), PreorderAll(_, _, _)
Preorder(d, index, fuel) ==
    <<index>> \o (IF fuel = 0 \/ DataGetChildren(d, index) = None THEN <<>>
                  ELSE PreorderAll(d, Unwrap(DataGetChildren(d, index)), fuel - 1))

PreorderAll(d, indices, fuel) ==
    IF indices = <<>> THEN <<>>
    ELSE Preorder(d, Head(indices), fuel) \o PreorderAll(d, Tail(indices), fuel)

\* the nodes under index form a tree of Leaf and Parent nodes: every one
\* resolves, none is the Error node, none is met twice
IsTree(d, index) ==
    LET pre == Preorder(d, index, ArenaSize(d.nodes))
    IN  /\ \A i \in 1..Len(pre) : IsSome(DataGetTokens(d, pre[i]))
        /\ \A i, j \in 1..Len(pre) : pre[i] = pre[j] => i = j

\* a tree of nodes as the lexemes of its tokens and the trees of its children
RECURSIVE LexemeTree(_, _, _)
LexemeTree(d, source_index, index) ==
    LET n == Unwrap(DataGetNode(d, index))
    IN  [lexemes |-> [t \in 1..Len(n.tokens) |-> DataGetLexeme(d, source_index, n.tokens[t])],
         children |-> [k \in 1..Len(n.children) |->
                          LexemeTree(d, source_index, n.children[k])]]

\* Reader::new and Parser::parse of a text in a fresh Data: [parser, data, depths]
Reparsed(text) ==
    Then(DataInsertSource(DataDefault, text), LAMBDA loaded :
         ParserParse(ParserNew(loaded.index), loaded.data, <<>>))

\* the text written is read back as one root whose tree is that of the node
ReadsBack(d, source_index, index, text) ==
    Then(Reparsed(text), LAMBDA r :
        /\ Len(r.data.root_nodes) = 1
        /\ LexemeTree(r.data, r.data.root_nodes[1][1], r.data.root_nodes[1][2])
            = LexemeTree(d, source_index, index))

Writable(lexeme) ==
    /\ IsSome(lexeme)
    /\ Unwrap(lexeme) # <<>>
    /\ ~Contains(Unwrap(lexeme), NL)
    /\ ~(Contains(Unwrap(lexeme), DQ) /\ Contains(Unwrap(lexeme), BQ))

\* every node under index has a token and only writable lexemes
WritableTree(d, source_index, index) ==
    LET pre == Preorder(d, index, ArenaSize(d.nodes))
    IN  \A i \in 1..Len(pre) :
            LET tokens == Unwrap(DataGetTokens(d, pre[i]))
            IN  /\ tokens # <<>>
                /\ \A t \in 1..Len(tokens) : Writable(DataGetLexeme(d, source_index, tokens[t]))

C14_LenCountsLive ==
    /\ ArenaLen(arena) = inserts - removes
    /\ (lastOp.op \in {"remove", "remove_by_usize"} /\ lastOp.ret = None) =>
        ArenaLen(arena) = ArenaLen(lastOp.before)

\* a remove of a stale index has just failed on an arena that has seen three
\* inserts and a successful remove
C14_Witness ==
    /\ lastOp.op = "remove"
    /\ lastOp.ret = None
    /\ lastOp.index \in removed
    /\ inserts = 3
    /\ removes = 1
    /\ ArenaLen(arena) = 2

(***************************************************************************)
(* C15: in every reachable arena state, occupied() yields exactly the      *)
(* ArenaIndex values for which get returns a value, each once, in strictly *)
(* increasing slot order.                                                  *)
(***************************************************************************)
C15_OccupiedIsLive ==
    LET occ == ArenaOccupied(arena)
    IN  /\ \A idx \in IndexUniverse :
            IsSome(ArenaGet(arena, idx)) <=> \E n \in 1..Len(occ) : occ[n] = idx
        /\ \A n \in 1..Len(occ) : occ[n] \in IndexUniverse
        /\ \A n, m \in 1..Len(occ) : n < m => occ[n].index < occ[m].index
        /\ Len(occ) = ArenaLen(arena)

\* two occupied slots around a free one, the later slot of a later generation
C15_Witness ==
    /\ Len(ArenaOccupied(arena)) = 2
    /\ ArenaOccupied(arena)[1].index = 0
    /\ ArenaOccupied(arena)[2].index = 2
    /\ ArenaOccupied(arena)[2].generation > ArenaOccupied(arena)[1].generation
    /\ ArenaOccupied(arena)[2].generation < arena.generation

(***************************************************************************)
(* C16: insert places the value in the slot freed by the most recent       *)
(* successful remove that has not been reused since (last freed, first     *)
(* reused), and appends a new slot at index size() only when no freed slot *)
(* remains; the index returned carries the arena's generation counter as   *)
(* it is at the time of the insert.                                        *)
(***************************************************************************)
C16_InsertReusesLastFreed ==
    lastOp.op = "insert" =>
        /\ IF lastOp.freed # <<>>
           THEN /\ lastOp.ret.index = lastOp.freed[Len(lastOp.freed)]
                /\ ArenaSize(arena) = ArenaSize(lastOp.before)
           ELSE /\ lastOp.ret.index = ArenaSize(lastOp.before)
                /\ ArenaSize(arena) = ArenaSize(lastOp.before) + 1
        /\ lastOp.ret.generation = lastOp.before.generation
        /\ arena.generation = lastOp.before.generation
        /\ EntryAt(arena, lastOp.ret.index)
            = Some(Occupied(lastOp.before.generation, lastOp.value))
        /\ ArenaGet(arena, lastOp.ret) = Some(lastOp.value)

\* an insert made with two freed slots waiting, into the one freed last, by
\* an arena that has removed twice
C16_Witness ==
    /\ lastOp.op = "insert"
    /\ Len(lastOp.freed) = 2
    /\ lastOp.freed[1] > lastOp.freed[2]
    /\ lastOp.ret = ArenaIndex(2, lastOp.freed[2])
    /\ freed = <<lastOp.freed[1]>>

(***************************************************************************)
(* C17: an insert, or a remove of another index, leaves every other live   *)
(* index unchanged: each index that resolved before the operation and is   *)
(* not the removed one resolves to the same value afterwards and keeps its *)
(* slot number and generation.                                             *)
(***************************************************************************)
\* the index a remove call took out of the arena, if it took one
RemovedBy(op) ==
    IF op.op = "remove" /\ IsSome(op.ret) THEN {op.index}
    ELSE IF op.op = "remove_by_usize" /\ IsSome(op.ret)
    THEN {Unwrap(ArenaGetIndexByUsize(op.before, op.index))}
    ELSE {}

C17_OthersUntouched ==
    lastOp.op \in {"insert", "remove", "remove_by_usize"} =>
        \A idx \in IndexUniverse \ RemovedBy(lastOp) :
            IsSome(ArenaGet(lastOp.before, idx)) =>
                /\ ArenaGet(arena, idx) = ArenaGet(lastOp.before, idx)
                /\ ArenaGetIndexByUsize(arena, idx.index) = Some(idx)

\* a remove has just taken slot 0 out from under two live indices of higher
\* slots that hold different values
C17_Witness ==
    /\ lastOp.op = "remove"
    /\ IsSome(lastOp.ret)
    /\ lastOp.index.index = 0
    /\ \E i, j \in live :
        /\ i.index = 1 /\ j.index = 2
        /\ ArenaGet(arena, i) # ArenaGet(arena, j)

(***************************************************************************)
(* C18: get, get_mut and remove given an index whose slot number is out of *)
(* range, whose slot is free, or whose generation differs from the slot's  *)
(* stamp return nothing, and such a failed remove leaves the arena         *)
(* unchanged: len, size, the generation counter, the free-slot stack and   *)
(* every stored value are as before.                                       *)
(***************************************************************************)
\* the index names no slot, a free slot, or a slot stamped otherwise
Dangling(a, idx) ==
    \/ idx.index >= ArenaSize(a)
    \/ a.arena[idx.index + 1] = Free
    \/ a.arena[idx.index + 1].generation # idx.generation

C18_DanglingIndexFails ==
    /\ \A idx \in IndexUniverse :
        Dangling(arena, idx) =>
            /\ ArenaGet(arena, idx) = None
            /\ ArenaGetMut(arena, idx) = None
            /\ ArenaSet(arena, idx, MaxValue) = arena
            /\ ArenaRemove(arena, idx).value = None
    /\ (lastOp.op \in {"remove", "get_mut"} /\ Dangling(lastOp.before, lastOp.index)) =>
        /\ lastOp.ret = None
        /\ ArenaLen(arena) = ArenaLen(lastOp.before)
        /\ ArenaSize(arena) = ArenaSize(lastOp.before)
        /\ arena.generation = lastOp.before.generation
        /\ arena.next_free = lastOp.before.next_free
        /\ arena.arena = lastOp.before.arena

\* a remove has just been tried with the removed index of a slot that is
\* occupied again, beside a free slot and with an out-of-range index at hand
C18_Witness ==
    /\ lastOp.op = "remove"
    /\ lastOp.index \in removed
    /\ IsSome(ArenaGetByUsize(arena, lastOp.index.index))
    /\ lastOp.ret = None
    /\ arena.next_free # <<>>
    /\ \E idx \in IndexUniverse : idx.index >= ArenaSize(arena)

(***************************************************************************)
(* C19: push_child(parent, child) on a Leaf replaces it in place by a      *)
(* Parent: afterwards the same NodeIndex resolves to a Parent whose token  *)
(* list is the Leaf's, in the same order, and whose children are exactly   *)
(* [child]; on a Parent it appends child at the end of the children and    *)
(* leaves the tokens unchanged; no other node and no root entry changes.   *)
(***************************************************************************)
PushChildStep ==
    lastOp'.op = "push_child" =>
        LET parent == lastOp'.node
            child == lastOp'.child
            was == DataGetNode(data, parent)
        IN  /\ (IsSome(was) /\ Unwrap(was).tag = "Some") =>
                DataGetNode(data', parent)
                    = Some([tag |-> "Parent", tokens |-> Unwrap(was).tokens,
                            children |-> <<child>>])
            /\ (IsSome(was) /\ Unwrap(was).tag = "Parent") =>
                DataGetNode(data', parent)
                    = Some([tag |-> "Parent", tokens |-> Unwrap(was).tokens,
                            children |-> Append(Unwrap(was).children, child)])
            /\ \A other \in NodeIndexUniverse \ {parent} :
                DataGetNode(data', other) = DataGetNode(data, other)
            /\ ArenaSize(data'.nodes) = ArenaSize(data.nodes)
            /\ ArenaLen(data'.nodes) = ArenaLen(data.nodes)
            /\ data'.root_nodes = data.root_nodes
            /\ data'.error_node = data.error_node
            /\ data'.sources = data.sources

C19_PushChild == [][PushChildStep]_vars

\* a second child has just been pushed on a node that was a Leaf of two
\* different tokens, beside another node and a registered root
C19_Witness ==
    /\ lastOp.op = "push_child"
    /\ IsSome(DataGetNode(data, lastOp.node))
    /\ Len(Unwrap(DataGetNode(data, lastOp.node)).children) = 2
    /\ Len(Unwrap(DataGetNode(data, lastOp.node)).tokens) = 2
    /\ Unwrap(DataGetNode(data, lastOp.node)).tokens[1]
        # Unwrap(DataGetNode(data, lastOp.node)).tokens[2]
    /\ ArenaSize(data.nodes) = 3
    /\ data.root_nodes # <<>>

(***************************************************************************)
(* C20: push_child whose parent index does not resolve or resolves to the  *)
(* Error node, and push_token on an index that does not resolve or         *)
(* resolves to the Error node, are no-ops: the node arena, every node's    *)
(* tokens and children, the sources and the root registry are unchanged.   *)
(***************************************************************************)
\* the index resolves to no node, or to the Error node
NoNodeAt(d, index) ==
    \/ index.index >= ArenaSize(d.nodes)
    \/ d.nodes.arena[index.index + 1] = Free
    \/ d.nodes.arena[index.index + 1].generation # index.generation
    \/ d.nodes.arena[index.index + 1].value.tag = "Error"

NoOpStep ==
    (lastOp'.op \in {"push_child", "push_token"} /\ NoNodeAt(data, lastOp'.node)) =>
        /\ data'.nodes = data.nodes
        /\ \A index \in NodeIndexUniverse :
            /\ DataGetTokens(data', index) = DataGetTokens(data, index)
            /\ DataGetChildren(data', index) = DataGetChildren(data, index)
        /\ data'.sources = data.sources
        /\ data'.root_nodes = data.root_nodes
        /\ data'.error_node = data.error_node

C20_NoOpPushes == [][NoOpStep]_vars

\* a token has just been pushed on the Error node of a Data that holds a
\* Parent with a token and a registered root
C20_Witness ==
    /\ lastOp.op = "push_token"
    /\ lastOp.node = data.error_node
    /\ DataGetNode(data, data.error_node) = Some(NodeError)
    /\ \E index \in NodeIndexUniverse :
        /\ IsSome(DataGetChildren(data, index))
        /\ Unwrap(DataGetTokens(data, index)) # <<>>
    /\ data.root_nodes # <<>>

(***************************************************************************)
(* C21: the Error sentinel is never mutated and never removed: after any   *)
(* sequence of insert_node, push_child, push_token, push_root_node,        *)
(* insert_source, push_source and Parser::parse calls, error_node() is the *)
(* index created at construction, it resolves to the Error variant, and    *)
(* get_tokens and get_children on it return nothing.                       *)
(***************************************************************************)
C21_ErrorSentinel ==
    /\ data.error_node = DataDefault.error_node
    /\ DataGetNode(data, data.error_node) = Some(NodeError)
    /\ DataGetTokens(data, data.error_node) = None
    /\ DataGetChildren(data, data.error_node) = None

\* a push on the Error node itself has just returned, in a Data that a parse
\* has filled with a Parent and its root, and whose Error node is a
\* registered root as well
C21_Witness ==
    /\ lastOp.op \in {"push_child", "push_token"}
    /\ lastOp.node = data.error_node
    /\ \E i \in 1..Len(data.root_nodes) : data.root_nodes[i][2] = data.error_node
    /\ \E i \in 1..Len(data.root_nodes) : IsSome(DataGetChildren(data, data.root_nodes[i][2]))

(***************************************************************************)
(* C22: the root registry keeps parse order: push_root_node and            *)
(* Parser::parse only append to root_nodes() and never reorder or drop     *)
(* earlier entries, the roots of one source appear in the top-to-bottom    *)
(* order of their lines, and filter(p) yields exactly the registry pairs   *)
(* whose node resolves to a Leaf or Parent and for which p holds, in       *)
(* registry order (filter_children likewise over one node's children, in   *)
(* child order).                                                           *)
(***************************************************************************)
\* the node resolves to a Leaf or a Parent whose tokens satisfy the predicate
Selected(d, source_index, node_index, predicate) ==
    LET n == DataGetNode(d, node_index)
    IN  /\ IsSome(n)
        /\ Unwrap(n).tag \in {"Some", "Parent"}
        /\ Holds(predicate, d, source_index, Unwrap(n).tokens)

\* what filter and filter_children have returned is the selection, in order
FilterAnswers ==
    /\ lastOp.op = "filter" =>
           \A predicate \in Predicates :
               lastOp.ret[predicate]
                   = SelectSeq(data.root_nodes,
                               LAMBDA pair : Selected(data, pair[1], pair[2], predicate))
    /\ lastOp.op = "filter_children" =>
           \A predicate \in Predicates :
               lastOp.ret[predicate]
                   = SelectSeq(IF IsSome(DataGetNode(data, lastOp.node))
                                  /\ Unwrap(DataGetNode(data, lastOp.node)).tag = "Parent"
                               THEN Unwrap(DataGetNode(data, lastOp.node)).children
                               ELSE <<>>,
                               LAMBDA child : Selected(data, TheSource, child, predicate))

\* the registry entries a step has added
AddedRoots == SubSeq(data'.root_nodes, Len(data.root_nodes) + 1, Len(data'.root_nodes))

\* the offsets at which the lines of the added roots that hold a token begin
AddedStarts ==
    LET with_tokens == SelectSeq(AddedRoots,
                                 LAMBDA pair : Unwrap(DataGetTokens(data', pair[2])) # <<>>)
    IN  [i \in 1..Len(with_tokens) |->
            Unwrap(DataGetTokens(data', with_tokens[i][2]))[1].span.start]

RegistryStep ==
    /\ IsPrefix(data.root_nodes, data'.root_nodes)
    /\ lastOp'.op = "push_root_node" => Len(data'.root_nodes) = Len(data.root_nodes) + 1
    /\ lastOp'.op \notin {"push_root_node", "parse"} => data'.root_nodes = data.root_nodes
    /\ lastOp'.op = "parse" =>
        /\ \A i \in 1..Len(AddedRoots) :
            /\ AddedRoots[i][1] = lastOp'.source
            /\ IsSome(DataGetTokens(data', AddedRoots[i][2]))
            /\ DataGetNode(data, AddedRoots[i][2]) = None
        /\ \A i, j \in 1..Len(AddedStarts) : i < j => AddedStarts[i] < AddedStarts[j]
    /\ FilterAnswers'

C22_RegistryOrder == [][RegistryStep]_vars

\* filter has just returned two of three registry entries, the two roots a
\* parse registered, and not the Error node registered by hand
C22_Witness ==
    /\ lastOp.op = "filter"
    /\ Len(data.root_nodes) = 3
    /\ Len(lastOp.ret["any"]) = 2
    /\ lastOp.ret["any"][1] # lastOp.ret["any"][2]
    /\ lastOp.ret["keyword"] = lastOp.ret["any"]
    /\ lastOp.ret["bare"] = <<>>
    /\ \E i \in 1..3 : data.root_nodes[i][2] = data.error_node

(***************************************************************************)
(* C23: push_source on a valid source returns (old_len, new_len), with the *)
(* old text an unchanged prefix of the new text and the appended text      *)
(* occupying exactly that byte range; so the lexeme of every token whose   *)
(* span was valid before is unchanged, and the ranges returned by          *)
(* successive appends to one source are adjacent and never overlap.        *)
(***************************************************************************)
\* every token with a span of offsets up to n
TokensWithin(n) == {Token("Symbol", Span(start, end)) : start \in 0..n, end \in 0..n}

\* the ranges push_source has returned for one source, in call order
RangesOf(source_index) == SelectSeq(ranges, LAMBDA r : r.source = source_index)

RangesAdjacent ==
    \A source_index \in SourceIndexUniverse :
        \A i \in 1..Len(RangesOf(source_index)) :
            /\ RangesOf(source_index)[i].range[1] <= RangesOf(source_index)[i].range[2]
            /\ i > 1 => RangesOf(source_index)[i].range[1]
                             = RangesOf(source_index)[i - 1].range[2]

PushSourceStep ==
    /\ (lastOp'.op = "push_source" /\ IsSome(DataGetSource(data, lastOp'.source))) =>
           LET old == Unwrap(DataGetSource(data, lastOp'.source))
               new == Unwrap(DataGetSource(data', lastOp'.source))
           IN  /\ lastOp'.ret = Some(<<Len(old), Len(new)>>)
               /\ IsPrefix(old, new)
               /\ SubSeq(new, Len(old) + 1, Len(new)) = lastOp'.append
               /\ \A token \in TokensWithin(Len(new)) :
                      IsSome(DataGetLexeme(data, lastOp'.source, token)) =>
                          DataGetLexeme(data', lastOp'.source, token)
                              = DataGetLexeme(data, lastOp'.source, token)
               /\ \A other \in SourceIndexUniverse \ {lastOp'.source} :
                      DataGetSource(data', other) = DataGetSource(data, other)
    /\ RangesAdjacent'

C23_PushSource == [][PushSourceStep]_vars

\* the second of two appends to a source that was not empty has just returned;
\* both appended text, the first a two-byte character
C23_Witness ==
    /\ lastOp.op = "push_source"
    /\ Len(ranges) = 2
    /\ ranges[1].source = ranges[2].source
    /\ 0 < ranges[1].range[1]
    /\ ranges[1].range[2] = ranges[1].range[1] + 2
    /\ ranges[2].range[1] < ranges[2].range[2]
    /\ lastOp.ret = Some(ranges[2].range)
    /\ DataGetLexeme(data, lastOp.source, Token("Symbol", Span(ranges[1].range[1], ranges[1].range[2])))
           = Some(Encode(<<EACUTE>>))

(***************************************************************************)
(* C24: an invalid SourceIndex is signalled as an absent value and never   *)
(* aborts: get_source, push_source and get_lexeme return nothing and leave *)
(* the Data unchanged, and Lexer::next, Lexer::peek and Parser::parse on a *)
(* lexer whose SourceIndex does not resolve return no token, register no   *)
(* root and record no error instead of aborting.                          *)
(***************************************************************************)
\* the call a step makes names a source that does not resolve
OnInvalidSource(ops) ==
    /\ lastOp'.op \in ops
    /\ DataGetSource(data, lastOp'.source) = None

\* the readers and push_source return nothing and change nothing
AbsentFromData ==
    /\ OnInvalidSource({"get_source", "push_source"}) =>
           lastOp'.ret = None /\ data' = data
    /\ OnInvalidSource({"get_lexeme"}) =>
           /\ \A token \in AskedTokens : lastOp'.ret[token] = None
           /\ data' = data

\* the lexer and the parser return, with nothing
AbsentFromLexer ==
    /\ OnInvalidSource({"next", "peek"}) =>
           /\ ~lastOp'.aborted
           /\ lastOp'.ret = None
           /\ data' = data
    /\ OnInvalidSource({"parse"}) =>
           /\ ~lastOp'.aborted
           /\ lastOp'.errors = <<>>
           /\ data' = data

InvalidSourceStep == AbsentFromData /\ AbsentFromLexer

C24_InvalidSourceIsAbsent == [][InvalidSourceStep]_vars

(***************************************************************************)
(* C25: write and write_root_nodes terminate on every Data, node graphs    *)
(* with cycles (a node that is its own descendant, built with push_child)  *)
(* and nodes shared by several parents included, and emit the tokens of    *)
(* each (source, node) pair at most once per call.                         *)
(***************************************************************************)
\* the number of times c occurs in a text
RECURSIVE Count(_, _)
Count(text, c) ==
    IF text = <<>> THEN 0
    ELSE (IF Head(text) = c THEN 1 ELSE 0) + Count(Tail(text), c)

\* the call has returned; no pair has had its tokens written twice, and the
\* output holds one quoted token for each pair written
C25_WriteOnce ==
    lastOp.op \in {"write", "write_root_nodes"} =>
        /\ \A i, j \in 1..Len(lastOp.written) :
               lastOp.written[i] = lastOp.written[j] => i = j
        /\ Count(lastOp.ret, LETTER) = Len(lastOp.written)
        /\ Count(lastOp.ret, DQ) = 2 * Len(lastOp.written)

\* write has returned from a node that is a child of a node written after it,
\* and so its own descendant, having written three nodes
C25_Witness ==
    /\ lastOp.op = "write"
    /\ Len(lastOp.written) = 3
    /\ \E i \in 2..3 :
           /\ IsSome(DataGetChildren(data, lastOp.written[i][2]))
           /\ \E k \in 1..Len(Unwrap(DataGetChildren(data, lastOp.written[i][2]))) :
                  Unwrap(DataGetChildren(data, lastOp.written[i][2]))[k] = lastOp.node

(***************************************************************************)
(* C26: write renders the line of a node as all of its tokens in order,    *)
(* joined by exactly one space with no leading or trailing space, each     *)
(* token's lexeme wrapped in double quotes when it contains no double      *)
(* quote, else in backticks when it contains no backtick, else emitted     *)
(* unquoted; each child follows on its own line, preceded by a newline and *)
(* one tab more than its parent.                                           *)
(***************************************************************************)
\* a lexeme as the claim wraps it
Wrapping(lexeme) ==
    CASE DQ \notin {lexeme[i] : i \in 1..Len(lexeme)} -> <<DQ>> \o lexeme \o <<DQ>>
      [] OTHER -> IF BQ \notin {lexeme[i] : i \in 1..Len(lexeme)}
                  THEN <<BQ>> \o lexeme \o <<BQ>>
                  ELSE lexeme

\* the lexemes of a line, each wrapped, with one space between neighbours
RECURSIVE Joined(_)
Joined(lexemes) ==
    IF lexemes = <<>> THEN <<>>
    ELSE IF Len(lexemes) = 1 THEN Wrapping(lexemes[1])
    ELSE Wrapping(lexemes[1]) \o <<SP>> \o Joined(Tail(lexemes))

\* the text the claim gives for a tree of lexemes whose root line is written
\* at a depth of indentation tabs
RECURSIVE Rendering(_, _), RenderingAll(_, _)
Rendering(tree, indentation) ==
    Joined([t \in 1..Len(tree.lexemes) |-> Unwrap(tree.lexemes[t])])
        \o RenderingAll(tree.children, indentation + 1)

RenderingAll(trees, indentation) ==
    IF trees = <<>> THEN <<>>
    ELSE <<NL>> \o Repeat(TAB, indentation) \o Rendering(Head(trees), indentation)
             \o RenderingAll(Tail(trees), indentation)

C26_WriteRendering ==
    (lastOp.op = "write" /\ IsTree(data, lastOp.node)) =>
        lastOp.ret = Rendering(LexemeTree(data, TheSource, lastOp.node), lastOp.indentation)

(***************************************************************************)
(* src/reporting.rs: ReportColors, ReportData and Reportable::report.      *)
(* A rendered text is a sequence of pieces: the bytes of the texts it      *)
(* prints, one piece per punctuation character and digit, ESC, and one     *)
(* piece per color or reset code.  A position of the source is a byte      *)
(* offset on a character boundary.                                         *)
(***************************************************************************)
MAX_LINE_SCAN_LENGTH == 40

ESC == "ESC"
RESET == <<"[0m">>
NONE == <<>>
BRIGHT_RED == <<"[38;5;9m">>
BRIGHT_GREEN == <<"[38;5;10m">>
BRIGHT_YELLOW == <<"[38;5;11m">>
BRIGHT_BLUE == <<"[38;5;12m">>
BRIGHT_MAGENTA == <<"[38;5;13m">>
BRIGHT_CYAN == <<"[38;5;14m">>

\* ReportColors::default, which is ReportColors::error
ReportColorsDefault ==
    [message |-> BRIGHT_RED, note |-> BRIGHT_GREEN, divider |-> BRIGHT_CYAN,
     trim |-> BRIGHT_BLUE, highlight |-> BRIGHT_RED, underline |-> BRIGHT_MAGENTA,
     esc |-> <<ESC>>, reset |-> RESET]

\* ReportColors::warning
ReportColorsWarning ==
    [ReportColorsDefault EXCEPT !.message = BRIGHT_YELLOW, !.highlight = BRIGHT_YELLOW]

\* ReportColors::colorless
ReportColorsColorless ==
    [message |-> NONE, note |-> NONE, divider |-> NONE, trim |-> NONE,
     highlight |-> NONE, underline |-> NONE, esc |-> <<>>, reset |-> <<>>]

\* ReportData::new
ReportDataNew(source, kind, name, trimmed, color_data) ==
    [source |-> source, kind |-> kind, name |-> name, trimmed |-> trimmed,
     color_data |-> color_data, error_messages |-> <<>>]

\* &source[start..end], for start <= end on character boundaries
Str(source, start, end) == SubSeq(source, start + 1, end)

\* chars().count()
CharsCount(text) == Cardinality({i \in 1..Len(text) : text[i] # "A9"})

\* chars().filter(|ch| *ch == '\n').count()
Newlines(text) == Cardinality({i \in 1..Len(text) : text[i] = NL})

\* the start of the character that ends at position i
PrevStart(source, i) == IF source[i] = "A9" THEN i - 2 ELSE i - 1

\* char_indices().enumerate().take_while(..).last() from position i, where
\* steps characters have been enumerated already: the position after the last
\* character taken, and i when none is.  A character is taken while it is not
\* a newline, starts before bound, and fewer than max_steps have been
\* enumerated.
RECURSIVE TakeWhile(_, _, _, _, _)
TakeWhile(source, i, steps, max_steps, bound) ==
    IF /\ i < Len(source)
       /\ i < bound
       /\ Unwrap(CharAt(source, i)) # NL
       /\ steps < max_steps
    THEN TakeWhile(source, i + Utf8Len(Unwrap(CharAt(source, i))), steps + 1, max_steps, bound)
    ELSE i

\* the same over char_indices().rev(): the start of the last character taken,
\* going backwards from position i, and i when none is; a character is taken
\* while it starts at bound or later
RECURSIVE TakeWhileRev(_, _, _, _, _)
TakeWhileRev(source, i, steps, max_steps, bound) ==
    IF /\ i > 0
       /\ PrevStart(source, i) >= bound
       /\ Unwrap(CharAt(source, PrevStart(source, i))) # NL
       /\ steps < max_steps
    THEN TakeWhileRev(source, PrevStart(source, i), steps + 1, max_steps, bound)
    ELSE i

\* skip_while(|ch| ch.is_ascii_whitespace()): the position of the first
\* character at or after i that is not whitespace, Len(source) when none is
RECURSIVE SkipWhile(_, _)
SkipWhile(source, i) ==
    IF i < Len(source) /\ IsAsciiWhitespace(Unwrap(CharAt(source, i)))
    THEN SkipWhile(source, i + Utf8Len(Unwrap(CharAt(source, i))))
    ELSE i

\* the same over rev(): the position after the last character before i that
\* is not whitespace, 0 when none is
RECURSIVE SkipWhileRev(_, _)
SkipWhileRev(source, i) ==
    IF i > 0 /\ IsAsciiWhitespace(Unwrap(CharAt(source, PrevStart(source, i))))
    THEN SkipWhileRev(source, PrevStart(source, i))
    ELSE i

\* char_indices().take_while(|ch| *ch != '\n').last() from position i: the
\* position of the first newline at or after i, Len(source) when none is
TakeLine(source, i) ==
    LET stops == {j \in i..(Len(source) - 1) : source[j + 1] = NL}
    IN  IF stops = {} THEN Len(source) ELSE CHOOSE j \in stops : \A k \in stops : j <= k

\* the same over rev(): the position after the last newline before i, 0 when
\* none is
TakeLineRev(source, i) ==
    LET stops == {j \in 1..i : source[j] = NL}
    IN  IF stops = {} THEN 0 ELSE CHOOSE j \in stops : \A k \in stops : k <= j

\* MAX_LINE_SCAN_LENGTH + trimmed.chars().count()
ScanLimit(trimmed) == MAX_LINE_SCAN_LENGTH + CharsCount(trimmed)

\* Reportable::printed_source_map
RECURSIVE PrintedSourceMap(_)
PrintedSourceMap(text) ==
    IF Len(text) = 0 THEN <<>>
    ELSE IF Len(text) = 1
    THEN (CASE text[1] = NL -> <<>>
            [] text[1] = TAB -> <<SP, SP, SP, SP>>
            [] OTHER -> text)
    ELSE PrintedSourceMap(SubSeq(text, 1, Len(text) \div 2))
         \o PrintedSourceMap(SubSeq(text, Len(text) \div 2 + 1, Len(text)))

\* a tab counted as the one character it is, and the printed width of a tab
TabWidthOne == Len(<<TAB>>)
TabWidth == 4

\* Reportable::printed_source_length
PrintedSourceLength(text) ==
    CharsCount(text) - Newlines(text)
    + (TabWidth - 1) * Cardinality({i \in 1..Len(text) : text[i] = TAB})

\* report: line_number
LineNumber(source, span) ==
    Cardinality({i \in 1..Len(source) : i <= span.start /\ source[i] = NL}) + 1

\* report: line_start
SpanLineStart(source, span) == TakeLineRev(source, span.start)

\* report: column
Column(source, span) ==
    IF SpanLineStart(source, span) < span.start
    THEN PrevStart(source, span.start) - SpanLineStart(source, span) + 1
    ELSE 1

\* report: line_prefix_is_long
LinePrefixIsLong(source, span, trimmed) ==
    /\ SpanLineStart(source, span) <= span.start
    /\ CharsCount(Str(source, SpanLineStart(source, span), span.start)) > ScanLimit(trimmed)

\* report: first_highlight_end
FirstHighlightEnd(source, span) ==
    LET from == SkipWhile(source, span.start)
        stop == TakeWhile(source, from, CharsCount(Str(source, span.start, from)),
                          MAX_LINE_SCAN_LENGTH, span.end)
    IN  IF stop = from THEN span.end ELSE stop

\* report: second_highlight_start
SecondHighlightStart(source, span) ==
    LET from == SkipWhileRev(source, span.end)
        stop == TakeWhileRev(source, from, CharsCount(Str(source, from, span.end)),
                             MAX_LINE_SCAN_LENGTH, span.start)
    IN  IF stop = from THEN span.start ELSE stop

\* report: highlight_is_long
HighlightIsLong(source, span) ==
    SecondHighlightStart(source, span) > FirstHighlightEnd(source, span)

\* report: line_end
SpanLineEnd(source, span) == TakeLine(source, span.end)

\* report: line_suffix_is_long
LineSuffixIsLong(source, span, trimmed) ==
    /\ SecondHighlightStart(source, span) <= SpanLineEnd(source, span)
    /\ CharsCount(Str(source, SecondHighlightStart(source, span), SpanLineEnd(source, span)))
           > ScanLimit(trimmed)

\* report: last_line_end
LastLineEnd(source, span) ==
    IF SkipWhileRev(source, SpanLineStart(source, span)) > 0
    THEN SkipWhileRev(source, SpanLineStart(source, span))
    ELSE SpanLineStart(source, span)

\* report: last_line_start
LastLineStart(source, span) ==
    TakeLineRev(source, LastLineEnd(source, span))

\* report: last_line_number
LastLineNumber(source, span) ==
    LineNumber(source, span)
    - (IF LastLineStart(source, span) < SpanLineStart(source, span)
       THEN Newlines(Str(source, LastLineStart(source, span), SpanLineStart(source, span)))
       ELSE 0)

\* report: last_line_not_this_line
LastLineNotThisLine(source, span) ==
    /\ LastLineEnd(source, span) <= SpanLineStart(source, span)
    /\ Newlines(Str(source, LastLineEnd(source, span), SpanLineStart(source, span))) > 0

\* report: last_line_is_long
LastLineIsLong(source, span, trimmed) ==
    /\ LastLineStart(source, span) <= LastLineEnd(source, span)
    /\ CharsCount(Str(source, LastLineStart(source, span), LastLineEnd(source, span)))
           > ScanLimit(trimmed)

\* report: next_line_start, the start of the line of the first character after
\* line_end that is not whitespace
NextLineStart(source, span) ==
    TakeLineRev(source, IF SkipWhile(source, SpanLineEnd(source, span)) < Len(source)
                 THEN SkipWhile(source, SpanLineEnd(source, span))
                 ELSE SpanLineEnd(source, span))

\* report: next_line_end
NextLineEnd(source, span) ==
    TakeLine(source, NextLineStart(source, span))

\* report: next_line_number
NextLineNumber(source, span) ==
    LineNumber(source, span)
    + Newlines(Str(source, SpanLineStart(source, span), NextLineStart(source, span)))

\* usize::checked_ilog10
RECURSIVE Ilog10(_)
Ilog10(n) == IF n < 10 THEN 0 ELSE 1 + Ilog10(n \div 10)

CheckedIlog10(n) == IF n = 0 THEN None ELSE Some(Ilog10(n))

\* report: line_number_digits
LineNumberDigits(source, span) ==
    (IF IsSome(CheckedIlog10(NextLineNumber(source, span) + 1))
     THEN Unwrap(CheckedIlog10(NextLineNumber(source, span) + 1))
     ELSE 0) + 1

\* report: next_line_not_this_line
NextLineNotThisLine(source, span) ==
    /\ SpanLineEnd(source, span) <= NextLineStart(source, span)
    /\ Newlines(Str(source, SpanLineEnd(source, span), NextLineStart(source, span))) > 0

\* report: next_line_is_long
NextLineIsLong(source, span, trimmed) ==
    /\ NextLineStart(source, span) <= NextLineEnd(source, span)
    /\ CharsCount(Str(source, NextLineStart(source, span), NextLineEnd(source, span)))
           > ScanLimit(trimmed)

\* report: false_start
FalseStart(source, span, trimmed) ==
    TakeWhileRev(source, span.start, 0, ScanLimit(trimmed), SpanLineStart(source, span))

\* report: false_end
FalseEnd(source, span, trimmed) ==
    IF TakeWhile(source, span.end, 0, ScanLimit(trimmed), Len(source)) = span.end
    THEN SpanLineEnd(source, span)
    ELSE TakeWhile(source, span.end, 0, ScanLimit(trimmed), Len(source))

\* report: the false_end of the previous line and of the next line
LastLineFalseEnd(source, span, trimmed) ==
    IF TakeWhile(source, LastLineStart(source, span), 0, ScanLimit(trimmed), Len(source))
           = LastLineStart(source, span)
    THEN LastLineEnd(source, span)
    ELSE TakeWhile(source, LastLineStart(source, span), 0, ScanLimit(trimmed), Len(source))

NextLineFalseEnd(source, span, trimmed) ==
    IF TakeWhile(source, NextLineStart(source, span), 0, ScanLimit(trimmed), Len(source))
           = NextLineStart(source, span)
    THEN NextLineEnd(source, span)
    ELSE TakeWhile(source, NextLineStart(source, span), 0, ScanLimit(trimmed), Len(source))

\* the decimal digits of a number, as format! prints it
RECURSIVE Decimal(_)
Decimal(n) ==
    IF n < 10 THEN <<<<"0", "1", "2", "3", "4", "5", "6", "7", "8", "9">>[n + 1]>>
    ELSE Decimal(n \div 10) \o Decimal(n % 10)

\* {:>width$}: a text right-aligned in a width, never cut
AlignRight(text, width) ==
    Repeat(SP, IF width > Len(text) THEN width - Len(text) ELSE 0) \o text

\* "{esc}{color}{text}{esc}{reset}"
PaintUnclosed(color_data, color, text) ==
    color_data.esc \o color \o text \o color_data.reset
Paint(color_data, color, text) ==
    color_data.esc \o color \o text \o color_data.esc \o color_data.reset

\* " {esc}{divider}{number:>digits$} | {esc}{reset}"
Gutter(color_data, digits, number) ==
    <<SP>> \o color_data.esc \o color_data.divider \o AlignRight(number, digits)
    \o <<SP, "|", SP>> \o color_data.esc \o color_data.reset

CARET == "^"

\* report: the header, lines 440-462
Header(rd, source, span, message) ==
    Paint(rd.color_data, rd.color_data.divider, Repeat("-", 15)) \o <<NL>>
    \o rd.color_data.esc \o rd.color_data.message \o PrintedSourceMap(rd.name)
    \o <<":">> \o Decimal(LineNumber(source, span))
    \o <<":">> \o Decimal(Column(source, span)) \o <<NL>>
    \o rd.color_data.esc \o rd.color_data.message \o PrintedSourceMap(rd.kind) \o <<":">>
    \o (IF IsSome(message) THEN <<SP>> \o PrintedSourceMap(Unwrap(message)) ELSE <<>>)
    \o rd.color_data.esc \o rd.color_data.reset \o <<NL>>

\* report: the row of the line before, lines 487-528
LastLineRow(rd, source, span) ==
    IF LastLineNotThisLine(source, span)
    THEN Gutter(rd.color_data, LineNumberDigits(source, span),
                Decimal(LastLineNumber(source, span)))
         \o PrintedSourceMap(Str(source, LastLineStart(source, span),
                                 LastLineFalseEnd(source, span, PrintedSourceMap(rd.trimmed))))
         \o (IF LastLineIsLong(source, span, PrintedSourceMap(rd.trimmed))
             THEN <<SP>> \o Paint(rd.color_data, rd.color_data.trim, PrintedSourceMap(rd.trimmed))
             ELSE <<>>)
         \o <<NL>>
    ELSE <<>>

\* report: the row of the line after, lines 960-1001
NextLineRow(rd, source, span) ==
    IF NextLineNotThisLine(source, span)
    THEN Gutter(rd.color_data, LineNumberDigits(source, span),
                Decimal(NextLineNumber(source, span)))
         \o PrintedSourceMap(Str(source, NextLineStart(source, span),
                                 NextLineFalseEnd(source, span, PrintedSourceMap(rd.trimmed))))
         \o (IF NextLineIsLong(source, span, PrintedSourceMap(rd.trimmed))
             THEN <<SP>> \o Paint(rd.color_data, rd.color_data.trim, PrintedSourceMap(rd.trimmed))
             ELSE <<>>)
         \o <<NL>>
    ELSE <<>>

\* report: line_prefix_is_long && false_start > line_start
PrefixIsCut(source, span, trimmed) ==
    /\ LinePrefixIsLong(source, span, trimmed)
    /\ FalseStart(source, span, trimmed) > SpanLineStart(source, span)

\* report: line_suffix_is_long && false_end < line_end
SuffixIsCut(source, span, trimmed) ==
    /\ LineSuffixIsLong(source, span, trimmed)
    /\ FalseEnd(source, span, trimmed) < SpanLineEnd(source, span)

\* "^".repeat(printed_source_length(text).max(1)), in the underline color
CaretsNone(color_data, text) ==
    Paint(color_data, color_data.underline, Repeat(CARET, PrintedSourceLength(text)))
Carets(color_data, text) ==
    Paint(color_data, color_data.underline,
          Repeat(CARET, IF PrintedSourceLength(text) > 1 THEN PrintedSourceLength(text) ELSE 1))

\* report: a highlight cut in two over two lines, lines 530-714
TwoLineRows(rd, source, span, trimmed) ==
    Gutter(rd.color_data, LineNumberDigits(source, span), Decimal(LineNumber(source, span)))
    \o (IF PrefixIsCut(source, span, trimmed)
        THEN Paint(rd.color_data, rd.color_data.trim, trimmed) \o <<SP>> ELSE <<>>)
    \o PrintedSourceMap(Str(source, FalseStart(source, span, trimmed), span.start))
    \o Paint(rd.color_data, rd.color_data.highlight,
             PrintedSourceMap(Str(source, span.start, FirstHighlightEnd(source, span))))
    \o <<NL>> \o Gutter(rd.color_data, LineNumberDigits(source, span), <<SP>>)
    \o (IF PrefixIsCut(source, span, trimmed)
        THEN Repeat(SP, PrintedSourceLength(trimmed) + 1) ELSE <<>>)
    \o Repeat(SP, PrintedSourceLength(Str(source, FalseStart(source, span, trimmed), span.start)))
    \o Carets(rd.color_data, Str(source, span.start, FirstHighlightEnd(source, span)))
    \o <<NL>> \o Gutter(rd.color_data, LineNumberDigits(source, span), <<SP>>)
    \o Paint(rd.color_data, rd.color_data.trim, trimmed)
    \o <<NL>> \o Gutter(rd.color_data, LineNumberDigits(source, span),
                        Decimal(LineNumber(source, span)
                                + Newlines(Str(source, FirstHighlightEnd(source, span),
                                               SecondHighlightStart(source, span)))))
    \o Paint(rd.color_data, rd.color_data.highlight,
             PrintedSourceMap(Str(source, SecondHighlightStart(source, span), span.end)))
    \o PrintedSourceMap(Str(source, span.end, FalseEnd(source, span, trimmed)))
    \o (IF SuffixIsCut(source, span, trimmed)
        THEN <<SP>> \o Paint(rd.color_data, rd.color_data.trim, trimmed) ELSE <<>>)
    \o <<NL>> \o Gutter(rd.color_data, LineNumberDigits(source, span), <<SP>>)
    \o Carets(rd.color_data, Str(source, SecondHighlightStart(source, span), span.end))

\* report: a highlight cut in two on one line, lines 715-859
CutRows(rd, source, span, trimmed) ==
    Gutter(rd.color_data, LineNumberDigits(source, span), Decimal(LineNumber(source, span)))
    \o (IF PrefixIsCut(source, span, trimmed)
        THEN Paint(rd.color_data, rd.color_data.trim, trimmed) \o <<SP>> ELSE <<>>)
    \o PrintedSourceMap(Str(source, FalseStart(source, span, trimmed), span.start))
    \o Paint(rd.color_data, rd.color_data.highlight,
             PrintedSourceMap(Str(source, span.start, FirstHighlightEnd(source, span))))
    \o <<SP>> \o Paint(rd.color_data, rd.color_data.trim, trimmed) \o <<SP>>
    \o Paint(rd.color_data, rd.color_data.highlight,
             PrintedSourceMap(Str(source, SecondHighlightStart(source, span), span.end)))
    \o PrintedSourceMap(Str(source, span.end, FalseEnd(source, span, trimmed)))
    \o <<NL>> \o Gutter(rd.color_data, LineNumberDigits(source, span), <<SP>>)
    \o (IF PrefixIsCut(source, span, trimmed)
        THEN Paint(rd.color_data, rd.color_data.trim,
                   Repeat(SP, PrintedSourceLength(trimmed) + 1)) \o <<SP>>
        ELSE <<>>)
    \o Repeat(SP, PrintedSourceLength(Str(source, FalseStart(source, span, trimmed), span.start)))
    \o Carets(rd.color_data, Str(source, span.start, FirstHighlightEnd(source, span)))
    \o <<SP>> \o Paint(rd.color_data, rd.color_data.trim,
                       Repeat(SP, PrintedSourceLength(trimmed) + 2)) \o <<SP>>
    \o Carets(rd.color_data, Str(source, SecondHighlightStart(source, span), span.end))

\* report: a highlight printed whole, lines 860-956
WholeRows(rd, source, span, trimmed) ==
    Gutter(rd.color_data, LineNumberDigits(source, span), Decimal(LineNumber(source, span)))
    \o (IF PrefixIsCut(source, span, trimmed)
        THEN Paint(rd.color_data, rd.color_data.trim, trimmed) \o <<SP>> ELSE <<>>)
    \o PrintedSourceMap(Str(source, FalseStart(source, span, trimmed), span.start))
    \o Paint(rd.color_data, rd.color_data.highlight,
             PrintedSourceMap(Str(source, span.start, span.end)))
    \o PrintedSourceMap(Str(source, span.end, FalseEnd(source, span, trimmed)))
    \o (IF SuffixIsCut(source, span, trimmed)
        THEN <<SP>> \o Paint(rd.color_data, rd.color_data.trim, trimmed) ELSE <<>>)
    \o <<NL>> \o Gutter(rd.color_data, LineNumberDigits(source, span), <<SP>>)
    \o (IF PrefixIsCut(source, span, trimmed)
        THEN Repeat(SP, PrintedSourceLength(trimmed) + 1) ELSE <<>>)
    \o Repeat(SP, PrintedSourceLength(Str(source, FalseStart(source, span, trimmed), span.start)))
    \o Carets(rd.color_data, Str(source, span.start, span.end))

\* report: the branch taken, lines 530-958
HighlightRows(rd, source, span, trimmed) ==
    (IF /\ HighlightIsLong(source, span)
        /\ Newlines(Str(source, FirstHighlightEnd(source, span),
                        SecondHighlightStart(source, span))) > 0
     THEN TwoLineRows(rd, source, span, trimmed)
     ELSE IF HighlightIsLong(source, span)
     THEN CutRows(rd, source, span, trimmed)
     ELSE WholeRows(rd, source, span, trimmed))
    \o <<NL>>

\* report: the notes, lines 1003-1013
RECURSIVE NoteRows(_, _)
NoteRows(rd, notes) ==
    IF notes = <<>> THEN <<>>
    ELSE rd.color_data.esc \o rd.color_data.note \o <<"N", "O", "T", "E", ":", SP>>
         \o Head(notes) \o rd.color_data.esc \o rd.color_data.reset \o <<NL>>
         \o NoteRows(rd, Tail(notes))

\* the slices report takes exist: the span lies in the source on character
\* boundaries (a slice out of range or off a boundary panics)
SpanIsValid(source, span) ==
    /\ span.start <= span.end
    /\ span.end <= Len(source)
    /\ IsCharBoundary(source, span.start)
    /\ IsCharBoundary(source, span.end)

\* the text report pushes
Rendered(rd, span, message, notes) ==
    Header(rd, rd.source, span, message)
    \o LastLineRow(rd, rd.source, span)
    \o HighlightRows(rd, rd.source, span, PrintedSourceMap(rd.trimmed))
    \o NextLineRow(rd, rd.source, span)
    \o NoteRows(rd, notes)

\* Reportable::report
Report(rd, span, message, notes) ==
    [rd EXCEPT !.error_messages = Append(@, Rendered(rd, span, message, notes))]

\* ReportData::has_errors, ReportData::errors
ReportDataHasErrors(rd) == rd.error_messages # <<>>

ReportDataErrors(rd) == rd.error_messages

\* a take_errors that returns the texts and keeps them
ReportDataTakeErrorsKeep(rd) == [report_data |-> rd, ret |-> rd.error_messages]

\* ReportData::take_errors: [report_data |-> afterwards, ret |-> the texts]
ReportDataTakeErrors(rd) ==
    [report_data |-> [rd EXCEPT !.error_messages = <<>>], ret |-> rd.error_messages]

(***************************************************************************)
(* SpecReport: the driver's use of a ReportData (lib.rs:167-204): new over  *)
(* a source, report calls with the spans, messages and notes of errors,    *)
(* then take_errors.  The sources are short texts, a text that starts on a *)
(* late line, and texts of one and of two long lines that start with a     *)
(* double quote and end with a '#'; on a long text the spans start and end *)
(* near its start, near its end, behind a newline, and around one and two  *)
(* times the length of a long line.                                        *)
(***************************************************************************)
MaxReports == 1     \* texts a ReportData holds before they are taken
LongLine == 45      \* characters of a long line of a reported source
ManyLines == 8      \* newlines before the reported line of a late line
SpanReach == 2      \* how far from a landmark of a long text a span starts or ends

ReportSources ==
    {Encode(text) : text \in
        {<<>>,
         <<LETTER>>,
         <<TAB, LETTER, SP, LETTER>>,
         <<EACUTE, LETTER, LETTER>>,
         <<LETTER, NL, SP, LETTER, NL, LETTER>>,
         <<LETTER, NL, NL, LETTER>>}}
    \cup {Repeat(NL, ManyLines - 1) \o <<LETTER, NL, LETTER>>,
          Repeat(NL, ManyLines) \o <<LETTER, NL, LETTER>>,
          <<DQ>> \o Repeat(LETTER, 3 * LongLine - 2) \o <<HASH>>,
          <<DQ>> \o Repeat(LETTER, LongLine + SpanReach) \o <<NL>>
              \o Repeat(LETTER, LongLine + SpanReach) \o <<HASH>>}

\* the positions a span of the model starts or ends at
SpanCuts(source) ==
    {p \in 0..Len(source) :
        \/ Len(source) <= ManyLines + 3
        \/ p <= SpanReach
        \/ p >= Len(source) - SpanReach
        \/ p = MAX_LINE_SCAN_LENGTH - 1
        \/ (p >= LongLine - SpanReach /\ p <= LongLine + SpanReach + 1)
        \/ (p >= 2 * LongLine - SpanReach /\ p <= 2 * LongLine + SpanReach + 1)
        \/ \E q \in 1..Len(source) : source[q] = NL /\ p >= q /\ p <= q + SpanReach}

ReportSpans(source) ==
    {Span(start, end) : start \in SpanCuts(source), end \in SpanCuts(source)}

\* the driver's kind and trim marker (lib.rs:178-188), and a one-letter path
ReportKind == <<"E", "R", "R", "O", "R">>
ReportName == <<"f">>
ReportTrimmed == <<"[", "s", "n", "i", "p", "]">>

ReportPalettes == {ReportColorsDefault, ReportColorsWarning, ReportColorsColorless}

\* what an error gives report: its message and its notes
ReportTexts ==
    {[message |-> None, notes |-> <<>>],
     [message |-> Some(<<"m", TAB, "m">>), notes |-> << <<"n">>, <<"n", "n">> >>]}

InitReport ==
    /\ IdleUse /\ IdleArena /\ IdleParser /\ IdleData /\ data = None
    /\ lexer = None /\ out = <<>> /\ exhausted = FALSE
    /\ pc = "report"
    /\ reported = <<>>
    /\ lastOp = [op |-> "new"]
    /\ \E source \in ReportSources, color_data \in ReportPalettes :
           report_data = ReportDataNew(source, ReportKind, ReportName, ReportTrimmed,
                                       color_data)

DoReport(span, message, notes) ==
    /\ pc = "report"
    /\ Len(report_data.error_messages) < MaxReports
    /\ SpanIsValid(report_data.source, span)
    /\ report_data' = Report(report_data, span, message, notes)
    /\ reported' = Append(reported, Rendered(report_data, span, message, notes))
    /\ lastOp' = [op |-> "report", span |-> span, message |-> message, notes |-> notes,
                  ret |-> Rendered(report_data, span, message, notes)]
    /\ UNCHANGED <<arena, live, removed, data, lexer, out, exhausted, parser, depths, taken_errors, inserts, removes, minted, freed, calls, ranges, pc>>

DoTakeErrors ==
    /\ pc = "report"
    /\ pc' = "taken"
    /\ report_data' = ReportDataTakeErrors(report_data).report_data
    /\ lastOp' = [op |-> "take_errors", ret |-> ReportDataTakeErrors(report_data).ret]
    /\ UNCHANGED <<arena, live, removed, data, lexer, out, exhausted, parser, depths, taken_errors, inserts, removes, minted, freed, calls, ranges, reported>>

NextReport ==
    \/ \E span \in ReportSpans(report_data.source), text \in ReportTexts :
           DoReport(span, text.message, text.notes)
    \/ DoTakeErrors

SpecReport == InitReport /\ [][NextReport]_vars

(***************************************************************************)
(* Reading a rendered text: its escape sequences, its rows, its carets.    *)
(***************************************************************************)
ColorCodes ==
    {c[1] : c \in {RESET, BRIGHT_RED, BRIGHT_GREEN, BRIGHT_YELLOW, BRIGHT_BLUE,
                   BRIGHT_MAGENTA, BRIGHT_CYAN}}

\* the pieces of an escape sequence: an ESC that a code follows, and that code
InEscape(text, i) ==
    \/ text[i] = ESC /\ i < Len(text) /\ text[i + 1] \in ColorCodes
    \/ i > 1 /\ text[i - 1] = ESC /\ text[i] \in ColorCodes

\* the text with every escape sequence deleted
Strip(text) ==
    LET kept == SelectSeq([i \in 1..Len(text) |-> <<i, text[i]>>],
                          LAMBDA piece : ~InEscape(text, piece[1]))
    IN  [k \in 1..Len(kept) |-> kept[k][2]]

\* the positions of the newlines that end the rows of a text, and the row
\* that ends at one of them
RowEnds(text) == {i \in 1..Len(text) : text[i] = NL}

RowEndingAt(text, e) ==
    LET before == {i \in RowEnds(text) : i < e}
        start == IF before = {} THEN 1
                 ELSE 1 + CHOOSE i \in before : \A j \in before : j <= i
    IN  SubSeq(text, start, e - 1)

Occurrences(text, c) == Cardinality({i \in 1..Len(text) : text[i] = c})

\* the rows that hold a caret
UnderlineRows(text) == {e \in RowEnds(text) : Occurrences(RowEndingAt(text, e), CARET) > 0}

\* the printable length of a text: a tab counts 4, every other character 1
PrintableLength(text) ==
    LET starts == {i \in 1..Len(text) : text[i] # "A9"}
    IN  4 * Cardinality({i \in starts : text[i] = TAB})
        + Cardinality({i \in starts : text[i] # TAB})

Reported == pc = "report" /\ lastOp.op = "report"

SpanText == Str(report_data.source, lastOp.span.start, lastOp.span.end)

\* the span of the last report lies on one line and is shorter than the
\* truncation threshold
ShortOnOneLine ==
    /\ Newlines(SpanText) = 0
    /\ CharsCount(SpanText) < MAX_LINE_SCAN_LENGTH

\* C27: for a span that lies on one line and is shorter than the truncation
\* threshold, the text report renders has exactly one underline row, and the
\* number of carets in it is the printable length of the span text (a tab
\* counts 4, every other character 1), and 1 for a span of no length.
C27_OneUnderlineRow ==
    (Reported /\ ShortOnOneLine) =>
        /\ Cardinality(UnderlineRows(lastOp.ret)) = 1
        /\ Occurrences(lastOp.ret, CARET)
               = (IF PrintableLength(SpanText) > 1 THEN PrintableLength(SpanText) ELSE 1)

\* a tab and a letter have been reported and underlined by five carets
C27_Witness ==
    /\ Reported /\ ShortOnOneLine
    /\ SpanText = <<TAB, LETTER>>
    /\ Occurrences(lastOp.ret, CARET) = 5

\* the ReportData of the last report, had it been made colorless
Colorless == [report_data EXCEPT !.color_data = ReportColorsColorless]

\* C28: for the same source, span, message, notes, kind, name and trim marker,
\* the text report renders with ReportColors::colorless() is the text it
\* renders with a colored palette after every escape sequence (ESC followed by
\* a color or reset code) is deleted.
C28_ColorlessIsStripped ==
    (Reported /\ report_data.color_data # ReportColorsColorless) =>
        Strip(lastOp.ret) = Rendered(Colorless, lastOp.span, lastOp.message, lastOp.notes)

\* a colored report of a long highlight on one line behind a cut prefix, the
\* rows whose padding is painted
C28_Witness ==
    /\ Reported
    /\ report_data.color_data = ReportColorsDefault
    /\ HighlightIsLong(report_data.source, lastOp.span)
    /\ Newlines(SpanText) = 0
    /\ PrefixIsCut(report_data.source, lastOp.span, PrintedSourceMap(report_data.trimmed))
    /\ lastOp.notes # <<>>
    /\ Strip(lastOp.ret) # lastOp.ret

\* the n-th row of a text
Row(text, n) ==
    RowEndingAt(text, CHOOSE e \in RowEnds(text) :
                          Cardinality({i \in RowEnds(text) : i <= e}) = n)

\* the location a rendered text prints: the second row is name:line:column
PrintedLocation(text) ==
    LET row == Row(Strip(text), 2)
        colons == {i \in 1..Len(row) : row[i] = ":"}
        first == CHOOSE i \in colons : \A j \in colons : i <= j
        last == CHOOSE i \in colons : \A j \in colons : j <= i
    IN  [line |-> SubSeq(row, first + 1, last - 1),
         column |-> SubSeq(row, last + 1, Len(row))]

\* C29: the location report prints for a span is line = 1 + the number of
\* newline characters strictly before the span start, and column = the number
\* of characters between the start of that line (just after the previous
\* newline, or the source start) and the span start.
C29_Location ==
    Reported =>
        PrintedLocation(lastOp.ret) =
            [line |-> Decimal(1 + Newlines(Str(report_data.source, 0, lastOp.span.start))),
             column |-> Decimal(CharsCount(
                            Str(report_data.source,
                                LineStart(report_data.source, lastOp.span.start),
                                lastOp.span.start)))]

\* the rows of a text that start with a gutter, and the field of a gutter:
\* what stands between the space that opens the row and " | "
GutterRows(text) == {e \in RowEnds(text) : Occurrences(RowEndingAt(text, e), "|") > 0}

GutterField(row) ==
    SubSeq(row, 2, (CHOOSE i \in 1..Len(row) :
                        row[i] = "|" /\ \A j \in 1..(i - 1) : row[j] # "|") - 2)

IsDigit(c) == \E n \in 0..9 : Decimal(n) = <<c>>

RightAligned(field) ==
    \E k \in 0..Len(field) :
        \A i \in 1..Len(field) : IF i <= k THEN field[i] = SP ELSE IsDigit(field[i])

\* the line numbers a text prints in its gutters
PrintedNumbers(text) ==
    {SelectSeq(GutterField(RowEndingAt(text, e)), IsDigit) : e \in GutterRows(text)}
    \ {<<>>}

LargestPrinted(text, source) ==
    LET lines == {n \in 1..(Newlines(source) + 1) : Decimal(n) \in PrintedNumbers(text)}
    IN  CHOOSE n \in lines : \A m \in lines : m <= n

\* C30: in every diagnostic the width of the line-number gutter is the number
\* of decimal digits of the largest line number printed in that diagnostic,
\* and every printed line number is right-aligned in that width.
C30_GutterWidth ==
    Reported =>
        LET text == Strip(lastOp.ret)
        IN  \A e \in GutterRows(text) :
                /\ Len(GutterField(RowEndingAt(text, e)))
                       = Len(Decimal(LargestPrinted(text, report_data.source)))
                /\ RightAligned(GutterField(RowEndingAt(text, e)))

(***************************************************************************)
(* C34: an Arena never issues the same ArenaIndex twice: the index an      *)
(* insert returns differs from every index an earlier insert returned, and *)
(* a slot is reoccupied only with a generation strictly greater than every *)
(* stamp the slot held before.                                             *)
(***************************************************************************)
\* every ArenaIndex an insert has returned so far
Issued == live \cup removed

InsertIssuesFresh ==
    (lastOp'.op = "insert" /\ inserts' = inserts + 1) =>
        /\ lastOp'.ret \notin Issued
        /\ Resolves(arena', lastOp'.ret)
        /\ \A old \in Issued :
            old.index = lastOp'.ret.index => lastOp'.ret.generation > old.generation

C34_NeverIssuedTwice == [][InsertIssuesFresh]_vars

\* an insert has just reoccupied a slot that two removed indices named before
C34_Witness ==
    /\ lastOp.op = "insert"
    /\ \E p, q \in removed :
        /\ p # q
        /\ p.index = lastOp.ret.index
        /\ q.index = lastOp.ret.index

(***************************************************************************)
(* C35: in every reachable Arena state len() plus the length of the        *)
(* free-slot stack equals size(); the free-slot stack lists exactly the    *)
(* Free slots, each once; size() and the generation counter never          *)
(* decrease; the generation counter equals the number of successful        *)
(* removes; and every occupied slot's stamp is at most the counter.        *)
(***************************************************************************)
FreeSlots(a) == {i \in 0..(ArenaSize(a) - 1) : a.arena[i + 1].tag = "Free"}

C35_ArenaInvariants ==
    /\ ArenaLen(arena) + Len(arena.next_free) = ArenaSize(arena)
    /\ {arena.next_free[n] : n \in 1..Len(arena.next_free)} = FreeSlots(arena)
    /\ \A n, k \in 1..Len(arena.next_free) :
        arena.next_free[n] = arena.next_free[k] => n = k
    /\ arena.generation = removes
    /\ \A i \in 1..Len(arena.arena) :
        arena.arena[i].tag = "Occupied" => arena.arena[i].generation <= arena.generation
    /\ lastOp.op # "new" =>
        /\ ArenaSize(arena) >= ArenaSize(lastOp.before)
        /\ arena.generation >= lastOp.before.generation

\* two slots on the free stack, freed in the order 1, 0, beside a slot stamped
\* after the first remove
C35_Witness ==
    /\ arena.next_free = <<1, 0>>
    /\ ArenaSize(arena) = 3
    /\ arena.arena[3].tag = "Occupied"
    /\ arena.arena[3].generation = 1
    /\ lastOp.op \in {"remove", "remove_by_usize"}
    /\ IsSome(lastOp.ret)

(***************************************************************************)
(* C36: the nodes one parse call inserts form a forest: each of them is    *)
(* referenced exactly once, by one root-registry entry or by one child     *)
(* position of one Parent the parse created, never both; every child index *)
(* resolves; no node is its own descendant; and every Parent has at least  *)
(* one child.                                                              *)
(***************************************************************************)
\* the nodes the parse inserted: those that resolve now and did not resolve in
\* the Data the parser was made for
ParsedNodes ==
    {ArenaOccupied(data.nodes)[n] : n \in 1..Len(ArenaOccupied(data.nodes))}
        \ {ArenaOccupied(DataDefault.nodes)[n] : n \in 1..Len(ArenaOccupied(DataDefault.nodes))}

\* the places that refer to a node: root-registry entries and child positions
RootPlaces(d, index) == {r \in 1..Len(d.root_nodes) : d.root_nodes[r][2] = index}
ChildPlaces(d, nodes, index) ==
    {<<p, k>> \in nodes \X (1..ArenaSize(d.nodes)) :
        /\ k <= Len(Unwrap(DataGetNode(d, p)).children)
        /\ Unwrap(DataGetNode(d, p)).children[k] = index}

\* the nodes reached from a set of nodes by up to n child steps
RECURSIVE Below(_, _, _)
Below(d, from, n) ==
    LET kids == UNION {{Unwrap(DataGetNode(d, p)).children[k] :
                            k \in 1..Len(Unwrap(DataGetNode(d, p)).children)} :
                       p \in {q \in from : IsSome(DataGetNode(d, q))}}
    IN  IF n = 0 \/ kids = {} THEN {} ELSE kids \cup Below(d, kids, n - 1)

C36_ParsedForest ==
    Parsed =>
        \A index \in ParsedNodes :
            /\ Cardinality(RootPlaces(data, index))
                + Cardinality(ChildPlaces(data, ParsedNodes, index)) = 1
            /\ \A k \in 1..Len(Unwrap(DataGetNode(data, index)).children) :
                /\ IsSome(DataGetNode(data, Unwrap(DataGetNode(data, index)).children[k]))
                /\ Unwrap(DataGetNode(data, index)).children[k] \in ParsedNodes
            /\ index \notin Below(data, {index}, ArenaSize(data.nodes))
            /\ Unwrap(DataGetNode(data, index)).tag \in {"Some", "Parent"}
            /\ Unwrap(DataGetNode(data, index)).tag = "Parent"
                <=> Unwrap(DataGetNode(data, index)).children # <<>>

\* a parse that made two roots, one of them a Parent over a Parent
C36_Witness ==
    /\ Parsed
    /\ Len(data.root_nodes) = 2
    /\ \E index \in ParsedNodes :
        /\ RootPlaces(data, index) # {}
        /\ Cardinality(Below(data, {index}, ArenaSize(data.nodes))) = 3
        /\ \E k \in 1..Len(Unwrap(DataGetNode(data, index)).children) :
            Unwrap(DataGetNode(data, Unwrap(DataGetNode(data, index)).children[k])).tag = "Parent"

(***************************************************************************)
(* C37: every node parse inserts, root or child, has at least one token,   *)
(* and the number of roots it registers equals the number of top-level     *)
(* lines that carry a Symbol; a source with no Symbol token (empty, only   *)
(* blank lines, only comments, or only indentation) registers no root and  *)
(* inserts no node.                                                        *)
(***************************************************************************)
C37_NodesHaveTokens ==
    Parsed =>
        /\ \A index \in ParsedNodes : Unwrap(DataGetNode(data, index)).tokens # <<>>
        /\ Len(data.root_nodes) = Len(ChildLines(SymbolLines(ParseSource), 0))
        /\ SymbolsOf(TokenSeq(ParseItems)) = <<>> =>
            /\ data.root_nodes = <<>>
            /\ ParsedNodes = {}

(***************************************************************************)
(* C39: parse is insert-only on the Data it is given: it removes no node   *)
(* and no source, changes no source text, and changes neither the variant, *)
(* the tokens nor the children of any node that existed before the call;   *)
(* every NodeIndex and SourceIndex that resolved before the call resolves  *)
(* to the same content afterwards, and earlier root entries are kept.      *)
(***************************************************************************)
ParseIsInsertOnly ==
    (lastOp'.op = "parse" /\ calls' = calls + 1) =>
        /\ \A n \in 1..Len(ArenaOccupied(data.nodes)) :
            DataGetNode(data', ArenaOccupied(data.nodes)[n])
                = DataGetNode(data, ArenaOccupied(data.nodes)[n])
        /\ \A idx \in SourceIndexUniverse :
            IsSome(DataGetSource(data, idx)) =>
                DataGetSource(data', idx) = DataGetSource(data, idx)
        /\ data'.sources = data.sources
        /\ data'.nodes.generation = data.nodes.generation
        /\ ArenaLen(data'.nodes) >= ArenaLen(data.nodes)
        /\ IsPrefix(data.root_nodes, data'.root_nodes)
        /\ data'.error_node = data.error_node

C39_ParseInsertOnly == [][ParseIsInsertOnly]_vars

\* a parse has just added two nodes and two roots to a Data that held a second
\* Error node, put there by insert_node, and a root entry pushed by hand
C39_Witness ==
    /\ lastOp.op = "parse"
    /\ ~lastOp.aborted
    /\ ArenaSize(data.nodes) = 4
    /\ Unwrap(ArenaGetByUsize(data.nodes, 1)).tag = "Error"
    /\ Unwrap(ArenaGetByUsize(data.nodes, 2)).tag = "Some"
    /\ Unwrap(ArenaGetByUsize(data.nodes, 3)).tag = "Some"
    /\ Len(data.root_nodes) = 3
    /\ data.root_nodes[1][2] = ArenaIndex(0, 1)
    /\ data.root_nodes[2][2] = ArenaIndex(0, 2)
    /\ data.root_nodes[3][2] = ArenaIndex(0, 3)

(***************************************************************************)
(* C38: a lexer reports MixedIndentation at most once over the whole       *)
(* source: the indentation tracker moves only from Unknown to Space or     *)
(* Tab and from Space or Tab to Mixed, and never leaves Mixed; once it is  *)
(* Mixed, every later space or tab at the start of a line yields a plain   *)
(* Indent token without an error.                                          *)
(***************************************************************************)
LexSource == Unwrap(DataGetSource(data, lexer.source_index))

\* the places of out that hold a MixedIndentation error
MixedReports ==
    {i \in 1..Len(out) : out[i].tag = "Err" /\ out[i].val.kind = "MixedIndentation"}

\* the offsets of the spaces and tabs that stand at the start of a line
IndentOffsets(src) ==
    {p \in 0..(Len(src) - 1) : p < LineStart(src, p) + LeadingBlanks(src, LineStart(src, p))}

TrackerMoves ==
    \/ lexer'.spaces = lexer.spaces
    \/ lexer.spaces = "Unknown" /\ lexer'.spaces \in {"Space", "Tab"}
    \/ lexer.spaces \in {"Space", "Tab"} /\ lexer'.spaces = "Mixed"

MixedReportedOnce ==
    /\ Cardinality(MixedReports) <= 1
    /\ lexer.spaces \in {"Unknown", "Space", "Tab", "Mixed"}
    /\ MixedReports # {} => lexer.spaces = "Mixed"
    /\ exhausted =>
        \A i \in MixedReports :
            \A p \in IndentOffsets(LexSource) :
                p > out[i].val.span.start =>
                    \E j \in (i + 1)..Len(out) :
                        out[j] = Ok(Token("Indent", Span(p, p + 1)))

C38_MixedIndentationOnce == []MixedReportedOnce /\ [][TrackerMoves]_vars

\* tab, space, tab, space, read to the end: one report, at the first space, and
\* after it an Indent for a tab and an Indent for a space
C38_Witness ==
    /\ exhausted
    /\ LexSource = Encode(<<TAB, SP, TAB, SP>>)
    /\ Cardinality(MixedReports) = 1
    /\ \A i \in MixedReports :
        /\ out[i].val.span = Span(1, 2)
        /\ \E j, k \in (i + 1)..Len(out) :
            /\ out[j] = Ok(Token("Indent", Span(2, 3)))
            /\ out[k] = Ok(Token("Indent", Span(3, 4)))

(***************************************************************************)
(* C32: every Symbol token the lexer produces from a bareword (not from a  *)
(* quoted string) has a non-empty lexeme made only of ASCII characters     *)
(* that are not whitespace: no space, tab, newline, carriage return or     *)
(* form feed, for every input text, texts with CR LF line ends included.   *)
(***************************************************************************)
\* the Symbol tokens of out that do not start behind a quote that opens a string
BarewordTokens ==
    {out[i].val : i \in {j \in 1..Len(out) :
        /\ out[j].tag = "Ok"
        /\ out[j].val.kind = "Symbol"
        /\ ~(out[j].val.span.start >= 1
             /\ Roles(Source)[out[j].val.span.start] = "open")}}

C32_BarewordLexeme ==
    \A token \in BarewordTokens :
        /\ IsSome(Lexeme(token, Source))
        /\ Unwrap(Lexeme(token, Source)) # <<>>
        /\ \A k \in 1..Len(Unwrap(Lexeme(token, Source))) :
            Unwrap(Lexeme(token, Source))[k] \notin {SP, TAB, NL, CR, FF, "C3", "A9"}

(***************************************************************************)
(* C33: whenever report leaves out part of a source line before or after   *)
(* the highlighted span, it prints the trim marker in place of the omitted *)
(* text, in all three layouts; and it prints the marker on a prefix or     *)
(* suffix only when text was actually omitted there.  Read from the        *)
(* rendered rows for lines whose first character, or last character, is no *)
(* space or tab and occurs nowhere else: the text before the span is left  *)
(* out when the row lacks that first character, the text after it when the *)
(* row lacks that last character.                                          *)
(***************************************************************************)
\* the row printed above the first and above the last row of carets
RowAbove(text, e) ==
    RowEndingAt(text, CHOOSE i \in RowEnds(text) :
                          i < e /\ \A j \in RowEnds(text) : j < e => j <= i)

SpanStartRow ==
    LET text == Strip(lastOp.ret)
    IN  RowAbove(text, CHOOSE e \in UnderlineRows(text) : \A f \in UnderlineRows(text) : e <= f)

SpanEndRow ==
    LET text == Strip(lastOp.ret)
    IN  RowAbove(text, CHOOSE e \in UnderlineRows(text) : \A f \in UnderlineRows(text) : f <= e)

\* what a row prints behind its gutter
RowContent(row) ==
    SubSeq(row, 2 + (CHOOSE i \in 1..Len(row) :
                         row[i] = "|" /\ \A j \in 1..(i - 1) : row[j] # "|"), Len(row))

StartsWith(text, head) == Len(text) >= Len(head) /\ SubSeq(text, 1, Len(head)) = head
EndsWith(text, tail) ==
    Len(text) >= Len(tail) /\ SubSeq(text, Len(text) - Len(tail) + 1, Len(text)) = tail

MarkerBefore == StartsWith(RowContent(SpanStartRow), report_data.trimmed \o <<SP>>)
MarkerAfter == EndsWith(RowContent(SpanEndRow), <<SP>> \o report_data.trimmed)

\* the first character of the line the span starts on stands before the span
\* and occurs once in the source; likewise the last character of the line the
\* span ends on
PrefixIsMarked ==
    /\ SpanLineStart(report_data.source, lastOp.span) < lastOp.span.start
    /\ report_data.source[SpanLineStart(report_data.source, lastOp.span) + 1] \notin {SP, TAB}
    /\ Occurrences(report_data.source,
                   report_data.source[SpanLineStart(report_data.source, lastOp.span) + 1]) = 1

SuffixIsMarked ==
    /\ lastOp.span.end < SpanLineEnd(report_data.source, lastOp.span)
    /\ report_data.source[SpanLineEnd(report_data.source, lastOp.span)] \notin {SP, TAB}
    /\ Occurrences(report_data.source,
                   report_data.source[SpanLineEnd(report_data.source, lastOp.span)]) = 1

PrefixLeftOut ==
    Occurrences(SpanStartRow,
                report_data.source[SpanLineStart(report_data.source, lastOp.span) + 1]) = 0

SuffixLeftOut ==
    Occurrences(SpanEndRow,
                report_data.source[SpanLineEnd(report_data.source, lastOp.span)]) = 0

C33_TrimMarker ==
    Reported =>
        /\ PrefixIsMarked => (PrefixLeftOut <=> MarkerBefore)
        /\ SuffixIsMarked => (SuffixLeftOut <=> MarkerAfter)
        /\ SpanLineStart(report_data.source, lastOp.span) = lastOp.span.start => ~MarkerBefore
        /\ SpanLineEnd(report_data.source, lastOp.span) = lastOp.span.end => ~MarkerAfter

(***************************************************************************)
(* SpecBuffer: a ReportData over a short source that is reported to and    *)
(* flushed in any order: up to MaxBuffered report calls, with take_errors  *)
(* calls before, between and after them.                                   *)
(***************************************************************************)
MaxBuffered == 3    \* report calls made on one ReportData

BufferSource == Encode(<<LETTER, NL, LETTER>>)

BufferSpans == {Span(0, 1), Span(2, 3), Span(0, 3)}

InitBuffer ==
    /\ IdleUse /\ IdleArena /\ IdleParser /\ IdleData /\ data = None
    /\ lexer = None /\ out = <<>> /\ exhausted = FALSE
    /\ pc = "buffer"
    /\ reported = <<>>
    /\ lastOp = [op |-> "new"]
    /\ \E color_data \in {ReportColorsDefault, ReportColorsColorless} :
           report_data = ReportDataNew(BufferSource, ReportKind, ReportName, ReportTrimmed,
                                       color_data)

BufferReport(span) ==
    /\ pc = "buffer"
    /\ Len(reported) < MaxBuffered
    /\ SpanIsValid(report_data.source, span)
    /\ report_data' = Report(report_data, span, None, <<>>)
    /\ reported' = Append(reported, Rendered(report_data, span, None, <<>>))
    /\ lastOp' = [op |-> "report", span |-> span,
                  ret |-> Rendered(report_data, span, None, <<>>)]
    /\ UNCHANGED <<arena, live, removed, data, lexer, out, exhausted, parser, depths, taken_errors, inserts, removes, minted, freed, calls, ranges, pc>>

BufferTakeErrors ==
    /\ pc = "buffer"
    /\ Len(taken_errors) < MaxTakes
    /\ report_data' = ReportDataTakeErrors(report_data).report_data
    /\ taken_errors' = Append(taken_errors, ReportDataTakeErrors(report_data).ret)
    /\ lastOp' = [op |-> "take_errors", ret |-> ReportDataTakeErrors(report_data).ret]
    /\ UNCHANGED <<arena, live, removed, data, lexer, out, exhausted, parser, depths, inserts, removes, minted, freed, calls, ranges, pc, reported>>

NextBuffer ==
    \/ \E span \in BufferSpans : BufferReport(span)
    \/ BufferTakeErrors

SpecBuffer == InitBuffer /\ [][NextBuffer]_vars

\* the entries of a sequence of sequences, in order
RECURSIVE Concat(_)
Concat(seqs) == IF seqs = <<>> THEN <<>> ELSE Head(seqs) \o Concat(Tail(seqs))

(***************************************************************************)
(* C31: each report call appends exactly one rendered diagnostic to the    *)
(* end of the buffer and changes no earlier entry; take_errors returns all *)
(* accumulated diagnostics in the order they were reported and leaves the  *)
(* buffer empty, so has_errors is false afterwards and no diagnostic is    *)
(* ever returned by two take_errors calls.                                 *)
(***************************************************************************)
\* what the take_errors calls have returned, one call after the other, and then
\* the buffer, is what report has rendered, in call order
BufferInOrder ==
    /\ Concat(taken_errors) \o ReportDataErrors(report_data) = reported
    /\ lastOp.op = "take_errors" =>
        /\ ReportDataErrors(report_data) = <<>>
        /\ ~ReportDataHasErrors(report_data)
        /\ lastOp.ret = taken_errors[Len(taken_errors)]
    /\ ReportDataHasErrors(report_data) <=> Len(reported) > Len(Concat(taken_errors))

BufferStep ==
    /\ Len(reported') = Len(reported) + 1 =>
        /\ Len(ReportDataErrors(report_data')) = Len(ReportDataErrors(report_data)) + 1
        /\ IsPrefix(ReportDataErrors(report_data), ReportDataErrors(report_data'))
        /\ ReportDataErrors(report_data')[Len(ReportDataErrors(report_data'))] = lastOp'.ret
    /\ Len(taken_errors') = Len(taken_errors) + 1 =>
        /\ lastOp'.ret = ReportDataErrors(report_data)
        /\ ReportDataErrors(report_data') = <<>>

C31_BufferAppendAndTake == []BufferInOrder /\ [][BufferStep]_vars

\* two reports of different texts were taken together, a third was reported and
\* taken alone
C31_Witness ==
    /\ Len(taken_errors) = 2
    /\ Len(taken_errors[1]) = 2
    /\ taken_errors[1][1] # taken_errors[1][2]
    /\ Len(taken_errors[2]) = 1
    /\ taken_errors[2][1] # taken_errors[1][2]
    /\ reported = taken_errors[1] \o taken_errors[2]
    /\ ~ReportDataHasErrors(report_data)

====
